---- MODULE Spec2Model ----
(***************************************************************************)
(* PIX Totalizer: the usage gate (subscription.ts), the ledger operations  *)
(* (database.ts), the vision extraction (vision.ts) and the receipt        *)
(* pipeline (bot.ts processImage / processDocument).                       *)
(*                                                                         *)
(* Time is counted in ticks, TicksPerDay ticks to a calendar day; local    *)
(* midnight falls on the multiples of TicksPerDay.  A nullable column or   *)
(* an optional field is the empty tuple << >> when null/absent and <<v>>   *)
(* when it holds v.  An optional boolean flag that is absent is FALSE (the *)
(* callers only test it for truthiness).                                   *)
(***************************************************************************)
EXTENDS Integers, Sequences, FiniteSets, TLC

(* ------------------------------ bounds -------------------------------- *)

TicksPerDay == 2
MaxTime == 2
MaxRows == 7
StoredToday == 4
MaxSubmissions == 7
MaxMessages == 3

(* ------------------------- program constants -------------------------- *)

GRACE_PERIOD_DAYS == 3
FREE_LIMIT == 5
BASICO_LIMIT == 1000
PRO_LIMIT == 3500

Chats == {1, 2}
Runs == {1, 2}
PlanType == {"free", "basico", "pro", "ultra"}
Null == << >>

GraceTicks == GRACE_PERIOD_DAYS * TicksPerDay

\* process.env.ADMIN_CHAT_ID as the deployment sets it: chat 1 is the admin
DeployedAdmin == <<1>>

\* PENDING_MESSAGE_TTL, 2 * 60 * 1000 ms, in cleanup intervals of 30 * 1000 ms
PENDING_MESSAGE_TTL == 4

\* the update handlers that may be running at the same time, and the callback of
\* the cleanup timer
Handlers == {1, 2}
Timer == 0
Tasks == Handlers \cup {Timer}

\* message ids Telegram hands out
MessageIds == 1..MaxMessages

\* PLANS[plan].limit: null for the unlimited tier
PLANS_limit(plan) ==
    CASE plan = "free" -> <<FREE_LIMIT>>
      [] plan = "basico" -> <<BASICO_LIMIT>>
      [] plan = "pro" -> <<PRO_LIMIT>>
      [] OTHER -> Null

(* --------------------------- the two tables --------------------------- *)

\* a chat without a row in subscriptions
NoSub == [plan |-> "none", transactions_used |-> 0, period_end |-> Null]

\* the row the insert of getOrCreateSubscription leaves: column defaults
DefaultSub == [plan |-> "free", transactions_used |-> 0, period_end |-> Null]

VARIABLES
    now,        \* the wall clock, in ticks
    subs,       \* subscriptions: chat -> row (NoSub when the chat has none)
    ledger,     \* transactions: the rows in insertion (id) order
    pc,         \* run -> where the pipeline run stands
    chat,       \* run -> ctx.chat.id
    fileId,     \* run -> the inbound file's file_id
    sub,        \* run -> the row canProcess / incrementUsage loaded
    check,      \* run -> the CanProcessResult of this run
    result,     \* run -> the amount of the ExtractionResult
    reply,      \* run -> the final answer sent to the user
    submitted,  \* history: chat -> receipts submitted so far
    before,     \* history: run -> the ledger and the chat's usage counter when the run began
    expiredNotified,  \* history: chat -> a canProcess call has returned expired = true
    nextId,     \* the BIGSERIAL sequence of transactions.id
    cmd,        \* history: the last command handled since the last receipt, with its result
    activatedAt, \* history: chat -> <<when the chat's paid period was activated, by what>>
    payments,   \* payments: mp_payment_id -> the audit row (NoPayment: no row)
    vision,     \* run -> the model extractPixData is calling, the attempts withRetry has
                \* made, the API calls made for the receipt, the last call's outcome
    period_start, \* subscriptions.period_start: chat -> <<instant>> (Null: no row)
    ADMIN_CHAT_ID, \* the admin's chat id read from the environment at start-up
                  \* (Null: the variable is not set)
    pendingMessages, \* chat -> <<[messageId, age]>> (Null: no entry); age is
                  \* Date.now() - createdAt in cleanup intervals, kept up to TTL + 1
    displayed,    \* the delete-selection prompts the chat shows: sent, not deleted
    handlers      \* task -> the await a handler or the timer's callback stands at

\* what the receipt pipeline and the ledger commands leave alone once a chat has
\* its row: the start of the billing period
periodVars == <<period_start>>

\* what is read once when the process starts and never written
configVars == <<ADMIN_CHAT_ID>>

\* the pending interactive messages, the prompts on display and the handlers
\* around them
promptVars == <<pendingMessages, displayed, handlers>>

\* the state of the payment and vision services, which the ledger and plan
\* operations leave alone
serviceVars == <<payments, vision, periodVars, configVars, promptVars>>

vars == <<now, subs, ledger, pc, chat, fileId, sub, check, result, reply,
          submitted, before, expiredNotified, nextId, cmd, activatedAt, serviceVars>>

(* ------------------------------ strings ------------------------------ *)

\* strings are sequences of tokens: a digit, a separator, or a word without either
IsDigit(tok) == tok \in {"0", "1", "2"}

DigitValue(tok) == CASE tok = "0" -> 0 [] tok = "1" -> 1 [] tok = "2" -> 2

\* String(n) of a one-digit number
ToDigit(n) == CASE n = 0 -> "0" [] n = 1 -> "1" [] n = 2 -> "2"

\* String.prototype.split(sep)
RECURSIVE split(_, _)
split(s, sep) ==
    IF \A i \in 1..Len(s) : s[i] # sep
    THEN <<s>>
    ELSE LET i == CHOOSE k \in 1..Len(s) : s[k] = sep /\ \A j \in 1..(k - 1) : s[j] # sep
         IN  <<SubSeq(s, 1, i - 1)>> \o split(SubSeq(s, i + 1, Len(s)), sep)

\* the number a sequence of digits spells
RECURSIVE DecimalValue(_)
DecimalValue(ds) ==
    IF ds = << >> THEN 0
    ELSE 10 * DecimalValue(SubSeq(ds, 1, Len(ds) - 1)) + DigitValue(ds[Len(ds)])

\* parseInt(s, 10): the number the leading digits of s spell, NaN (Null) when s
\* starts with none
parseInt(s) ==
    LET n == CHOOSE k \in 0..Len(s) :
                 /\ \A i \in 1..k : IsDigit(s[i])
                 /\ k = Len(s) \/ ~IsDigit(s[k + 1])
    IN  IF n = 0 THEN Null ELSE <<DecimalValue(SubSeq(s, 1, n))>>

(* ------------------------- database.ts helpers ------------------------ *)

\* mutant: the last 24 hours in place of the calendar day
getStartOfTodayISORolling(t) == t - TicksPerDay

\* getStartOfTodayISO: today.setHours(0,0,0,0)
getStartOfTodayISO(t) == t - (t % TicksPerDay)

\* .eq("chat_id", chatId).gte("created_at", todayISO), in insertion order
TodayRows(led, c, t) ==
    SelectSeq(led, LAMBDA row : row.chat_id = c /\ row.created_at >= getStartOfTodayISO(t))

\* mutant: the lookup is filtered by the day like the other ledger queries
isDuplicateToday(led, c, f) ==
    \E i \in 1..Len(led) :
        /\ led[i].chat_id = c /\ led[i].telegram_file_id = f
        /\ led[i].created_at >= getStartOfTodayISO(now)

\* isDuplicate: a row with that (chat_id, telegram_file_id) exists, whatever its day
isDuplicate(led, c, f) ==
    \E i \in 1..Len(led) : led[i].chat_id = c /\ led[i].telegram_file_id = f

\* the row saveTransaction inserts; the store assigns id from its sequence and
\* created_at from its clock
NewRow(id, c, amount, f, t) ==
    [id |-> id, chat_id |-> c, amount |-> amount, telegram_file_id |-> f, created_at |-> t]

(* --------------------------- subscription.ts -------------------------- *)

\* getOrCreateSubscription: the stored row, inserted with the defaults when missing
getOrCreateSubscription(ss, c) ==
    IF ss[c].plan = "none" THEN [ss EXCEPT ![c] = DefaultSub] ELSE ss

\* period_start TIMESTAMPTZ DEFAULT NOW(): the column of the row that insert leaves
insertedPeriodStart(ps, ss, c, t) ==
    IF ss[c].plan = "none" THEN [ps EXCEPT ![c] = <<t>>] ELSE ps

\* isSubscriptionExpired: past period_end + GRACE_PERIOD_DAYS
isSubscriptionExpired(s, t) ==
    IF s.plan = "free" \/ s.period_end = Null
    THEN FALSE
    ELSE t > s.period_end[1] + GraceTicks

\* isInGracePeriod: after period_end, not after period_end + GRACE_PERIOD_DAYS
isInGracePeriod(s, t) ==
    IF s.plan = "free" \/ s.period_end = Null
    THEN FALSE
    ELSE t > s.period_end[1] /\ t <= s.period_end[1] + GraceTicks

\* Math.ceil(a / b), b > 0
Ceil(a, b) == -((-a) \div b)

\* mutant: Math.floor in place of Math.ceil
getDaysUntilExpiryFloor(s, t) ==
    IF s.plan = "free" \/ s.period_end = Null
    THEN Null
    ELSE <<(s.period_end[1] - t) \div TicksPerDay>>

\* getDaysUntilExpiry: Math.ceil((periodEnd - now) / one day), null for free
getDaysUntilExpiry(s, t) ==
    IF s.plan = "free" \/ s.period_end = Null
    THEN Null
    ELSE <<Ceil(s.period_end[1] - t, TicksPerDay)>>

\* getTodayTransactionCount: count of the chat's rows with created_at >= start of today
getTodayTransactionCount(led, c, t) == Len(TodayRows(led, c, t))

\* mutant: the downgrade leaves the usage counter as it was
downgradeKeepsCounter(ss, c) ==
    IF ss[c].plan = "none"
    THEN ss
    ELSE [ss EXCEPT ![c] = [plan |-> "free", transactions_used |-> ss[c].transactions_used,
                            period_end |-> Null]]

\* mutant: the downgrade leaves the period end in the row
downgradeKeepsPeriodEnd(ss, c) ==
    IF ss[c].plan = "none"
    THEN ss
    ELSE [ss EXCEPT ![c] = [plan |-> "free", transactions_used |-> 0,
                            period_end |-> ss[c].period_end]]

\* downgradeToFree: update {plan, transactions_used, period_end} where chat_id = c
downgradeToFree(ss, c) ==
    IF ss[c].plan = "none"
    THEN ss
    ELSE [ss EXCEPT ![c] = [plan |-> "free", transactions_used |-> 0, period_end |-> Null]]

\* a CanProcessResult without the optional fields
Decision(allowed, plan, used, limit) ==
    [allowed |-> allowed, plan |-> plan, used |-> used, limit |-> limit,
     message |-> Null, expired |-> FALSE, inGracePeriod |-> FALSE,
     daysUntilExpiry |-> Null]

\* canProcess, lines 377-390: fully expired, answered by the free-tier rule
ExpiredDecision(s, todayCount) ==
    [Decision(todayCount < FREE_LIMIT, "free", todayCount, <<FREE_LIMIT>>)
        EXCEPT !.expired = TRUE, !.message = <<"expired", s.plan>>]

\* mutant: the grace period allows without looking at the counter
GraceDecisionAlwaysAllows(s, t) ==
    LET daysUntilExpiry == getDaysUntilExpiry(s, t)
        graceDaysLeft == GRACE_PERIOD_DAYS
                         + (IF daysUntilExpiry = Null THEN 0 ELSE daysUntilExpiry[1])
        base == Decision(TRUE, s.plan, s.transactions_used, PLANS_limit(s.plan))
    IN  [base EXCEPT !.inGracePeriod = TRUE, !.daysUntilExpiry = daysUntilExpiry,
                     !.message = <<"grace", graceDaysLeft>>]

\* canProcess, lines 393-420: in the grace period, warn but allow
GraceDecision(s, t) ==
    LET daysUntilExpiry == getDaysUntilExpiry(s, t)
        graceDaysLeft == GRACE_PERIOD_DAYS
                         + (IF daysUntilExpiry = Null THEN 0 ELSE daysUntilExpiry[1])
        base == IF s.plan = "ultra"
                THEN Decision(TRUE, s.plan, s.transactions_used, Null)
                ELSE Decision(s.transactions_used < PLANS_limit(s.plan)[1], s.plan,
                              s.transactions_used, PLANS_limit(s.plan))
    IN  [base EXCEPT !.inGracePeriod = TRUE, !.daysUntilExpiry = daysUntilExpiry,
                     !.message = <<"grace", graceDaysLeft>>]

\* mutant: the unlimited tier is held to the largest cap
UltraDecisionCapped(s, t) ==
    [Decision(s.transactions_used < PRO_LIMIT, s.plan, s.transactions_used, Null)
        EXCEPT !.daysUntilExpiry = getDaysUntilExpiry(s, t)]

\* canProcess, lines 424-432: the unlimited tier
UltraDecision(s, t) ==
    [Decision(TRUE, s.plan, s.transactions_used, Null)
        EXCEPT !.daysUntilExpiry = getDaysUntilExpiry(s, t)]

\* mutant: the free tier is gated by the stored usage counter
FreeDecisionStoredCounter(s, todayCount) ==
    IF s.transactions_used >= FREE_LIMIT
    THEN [Decision(FALSE, s.plan, s.transactions_used, <<FREE_LIMIT>>)
            EXCEPT !.message = <<"daily_limit", s.transactions_used, FREE_LIMIT>>]
    ELSE Decision(TRUE, s.plan, s.transactions_used, <<FREE_LIMIT>>)

\* mutant: the daily limit is compared with > in place of >=
FreeDecisionOffByOne(s, todayCount) ==
    IF todayCount > FREE_LIMIT
    THEN [Decision(FALSE, s.plan, todayCount, <<FREE_LIMIT>>)
            EXCEPT !.message = <<"daily_limit", todayCount, FREE_LIMIT>>]
    ELSE Decision(TRUE, s.plan, todayCount, <<FREE_LIMIT>>)

\* canProcess, lines 435-455: the free tier, by today's ledger count
FreeDecision(s, todayCount) ==
    IF todayCount >= FREE_LIMIT
    THEN [Decision(FALSE, s.plan, todayCount, <<FREE_LIMIT>>)
            EXCEPT !.message = <<"daily_limit", todayCount, FREE_LIMIT>>]
    ELSE Decision(TRUE, s.plan, todayCount, <<FREE_LIMIT>>)

\* mutant: the monthly limit is compared with > in place of >=
PaidDecisionOffByOne(s, t) ==
    LET monthlyLimit == PLANS_limit(s.plan)[1]
    IN  IF s.transactions_used > monthlyLimit
        THEN [Decision(FALSE, s.plan, s.transactions_used, <<monthlyLimit>>)
                EXCEPT !.daysUntilExpiry = getDaysUntilExpiry(s, t),
                       !.message = <<"monthly_limit", s.transactions_used, monthlyLimit>>]
        ELSE [Decision(TRUE, s.plan, s.transactions_used, <<monthlyLimit>>)
                EXCEPT !.daysUntilExpiry = getDaysUntilExpiry(s, t)]

\* canProcess, lines 458-476: the capped paid tiers, by the stored counter
PaidDecision(s, t) ==
    LET monthlyLimit == PLANS_limit(s.plan)[1]
    IN  IF s.transactions_used >= monthlyLimit
        THEN [Decision(FALSE, s.plan, s.transactions_used, <<monthlyLimit>>)
                EXCEPT !.daysUntilExpiry = getDaysUntilExpiry(s, t),
                       !.message = <<"monthly_limit", s.transactions_used, monthlyLimit>>]
        ELSE [Decision(TRUE, s.plan, s.transactions_used, <<monthlyLimit>>)
                EXCEPT !.daysUntilExpiry = getDaysUntilExpiry(s, t)]

\* mutant: the expired branch answers without writing the downgrade
canProcessNeverDowngrades(s, t) == FALSE

\* canProcess: does this call write the downgrade?
canProcessDowngrades(s, t) == s.plan # "free" /\ isSubscriptionExpired(s, t)

\* canProcess: the decision for the loaded row s, with today's count read
\* after the downgrade write
canProcess(s, todayCount, t) ==
    IF s.plan # "free" /\ isSubscriptionExpired(s, t) THEN ExpiredDecision(s, todayCount)
    ELSE IF s.plan # "free" /\ isInGracePeriod(s, t) THEN GraceDecision(s, t)
    ELSE IF s.plan = "ultra" THEN UltraDecision(s, t)
    ELSE IF s.plan = "free" THEN FreeDecision(s, todayCount)
    ELSE PaidDecision(s, t)

\* mutant: the counter is raised whatever the plan
incrementUsageAnyPlan(ss, c, s) ==
    IF ss[c].plan # "none"
    THEN [ss EXCEPT ![c].transactions_used = s.transactions_used + 1]
    ELSE ss

\* incrementUsage's write: transactions_used = (loaded counter) + 1, paid plans only
incrementUsage(ss, c, s) ==
    IF s.plan # "free" /\ ss[c].plan # "none"
    THEN [ss EXCEPT ![c].transactions_used = s.transactions_used + 1]
    ELSE ss

(* ------------------------------ vision.ts ------------------------------ *)

\* what the vision API call (with its retries) comes back with
ApiResponses == {"throws", "unparsable", "amount_null", "no_amount_field", "amount"}

Amounts == {10}
AmountNull == <<"null">>
AmountUndefined == <<"undefined">>
AmountOf(v) == <<"number", v>>

\* parseExtractionResponse: parsed.amount, or null when JSON.parse throws
parseExtractionResponse(resp, v) ==
    CASE resp = "unparsable" -> AmountNull
      [] resp = "amount_null" -> AmountNull
      [] resp = "no_amount_field" -> AmountUndefined
      [] OTHER -> AmountOf(v)

\* extractPixData: Sonnet for a PDF; for an image Haiku first and Sonnet only when
\* Haiku's amount is null (=== null: undefined does not fall back); a throw of
\* either call is caught and answered with amount null
extractPixData(isPdf, haiku, sonnet, v) ==
    IF isPdf
    THEN IF sonnet = "throws" THEN AmountNull ELSE parseExtractionResponse(sonnet, v)
    ELSE IF haiku = "throws" THEN AmountNull
    ELSE IF parseExtractionResponse(haiku, v) # AmountNull
         THEN parseExtractionResponse(haiku, v)
    ELSE IF sonnet = "throws" THEN AmountNull
    ELSE parseExtractionResponse(sonnet, v)

(* ------------------------- the initial states -------------------------- *)

\* period ends around the clock's range: expired past grace from the start, on the
\* last tick of grace at the start, in grace throughout, and ending after the start
PeriodEnds == {0 - GraceTicks - 1, 0 - GraceTicks, -1, 1}

\* stored usage counters next to each cap
StoredUsage(plan) ==
    CASE plan = "basico" -> {BASICO_LIMIT - 1, BASICO_LIMIT}
      [] plan = "pro" -> {PRO_LIMIT - 1, PRO_LIMIT}
      [] OTHER -> {PRO_LIMIT}

\* rows the subscriptions table can hold for a chat that has used the bot: the
\* free defaults, or a paid plan some time after its activation
StoredSubs ==
    {DefaultSub}
    \cup {[plan |-> p, transactions_used |-> u, period_end |-> <<e>>] :
            p \in {"basico"}, u \in StoredUsage("basico"), e \in PeriodEnds}
    \cup {[plan |-> p, transactions_used |-> u, period_end |-> <<e>>] :
            p \in {"pro"}, u \in StoredUsage("pro"), e \in PeriodEnds}
    \cup {[plan |-> p, transactions_used |-> u, period_end |-> <<e>>] :
            p \in {"ultra"}, u \in StoredUsage("ultra"), e \in PeriodEnds}

Row(id, c, amount, f, t) ==
    [id |-> id, chat_id |-> c, amount |-> amount, telegram_file_id |-> f, created_at |-> t]

\* the transactions table of a database in use: chat 1 has one row of yesterday
\* and StoredToday rows of today; chat 2 has not used the bot yet
StoredLedger ==
    <<Row(1, 1, 10, 1, -1)>>
    \o [i \in 1..StoredToday |-> Row(i + 1, 1, 10, i + 1, 0)]

NoDecision == Decision(FALSE, "none", 0, Null)
NoAmount == <<"none">>
NoBefore == [ledger |-> << >>, used |-> 0]
NoCmd == [op |-> "none", chat |-> 0, arg |-> Null, ret |-> Null]

\* the calendar around the clock's range: tick 0 is 00:00 of 31 January; the first
\* day of December, January, February, March, April, in days since 1 January
MonthStart == <<-31, 0, 31, 59, 90>>
EpochDay == 30

\* the number of days of the calendar month the instant t lies in
DaysInMonthOf(t) ==
    LET day == EpochDay + (t - (t % TicksPerDay)) \div TicksPerDay
        m == CHOOSE i \in 1..(Len(MonthStart) - 1) :
                 MonthStart[i] <= day /\ day < MonthStart[i + 1]
    IN  MonthStart[m + 1] - MonthStart[m]

\* periodEnd.setMonth(periodEnd.getMonth() + 1): the same day number and time in
\* the next month; a day number the next month lacks rolls over into the month
\* after, so the instant moves on by the length of the current month
AddMonth(t) == t + DaysInMonthOf(t) * TicksPerDay

\* data.id of the gateway's notifications: the payments the gateway knows
PaymentIds == {1, 2}

\* a payment id without a row in payments
NoPayment == [chat_id |-> 0, plan |-> "none", mp_status |-> "none"]

\* no charge has been asked for yet
NoPayments == [p \in PaymentIds |-> NoPayment]

\* a run that is not inside extractPixData
NoVision == [model |-> "none", attempt |-> 0, calls |-> 0, isPdf |-> FALSE,
             last |-> "none"]

\* the locals of the pipeline runs and the history variables at the start
InitRuns ==
    /\ pc = [r \in Runs |-> "idle"]
    /\ chat = [r \in Runs |-> 1]
    /\ fileId = [r \in Runs |-> 0]
    /\ sub = [r \in Runs |-> NoSub]
    /\ check = [r \in Runs |-> NoDecision]
    /\ result = [r \in Runs |-> NoAmount]
    /\ reply = [r \in Runs |-> "none"]
    /\ submitted = [c \in Chats |-> 0]
    /\ before = [r \in Runs |-> NoBefore]
    /\ expiredNotified = [c \in Chats |-> FALSE]
    /\ nextId = Len(ledger) + 1
    /\ cmd = NoCmd
    /\ activatedAt = [c \in Chats |->
            IF subs[c].period_end = Null THEN Null
            ELSE <<CHOOSE a \in (subs[c].period_end[1] - 31 * TicksPerDay)
                                  ..(subs[c].period_end[1] - 28 * TicksPerDay) :
                       AddMonth(a) = subs[c].period_end[1], "webhook">>]
    /\ vision = [r \in Runs |-> NoVision]
    /\ pendingMessages = [c \in Chats |-> Null]
    /\ displayed = {}
    /\ handlers = [t \in Tasks |->
            [pc |-> "idle", kind |-> "none", target |-> 0, arg |-> Null]]
    /\ period_start = [c \in Chats |->
            IF subs[c] = NoSub THEN Null
            ELSE IF activatedAt[c] # Null THEN <<activatedAt[c][1]>>
            ELSE <<0 - TicksPerDay>>]

\* the bot starts on a database in use
Init ==
    /\ now = 0
    /\ subs \in {ss \in [Chats -> StoredSubs \cup {NoSub}] :
                    ss[1] # NoSub /\ ss[2] = NoSub}
    /\ ledger = StoredLedger
    /\ InitRuns
    /\ ADMIN_CHAT_ID = DeployedAdmin
    /\ payments = NoPayments

(* -------------------- bot.ts: the receipt pipeline --------------------- *)

ActiveRuns == {r \in Runs : pc[r] # "idle"}

\* file ids are opaque: an inbound file is one the chat already has in the ledger,
\* one another run of the chat is working on, or the first id the chat has not used
KnownFiles(c) ==
    {ledger[i].telegram_file_id : i \in {j \in 1..Len(ledger) : ledger[j].chat_id = c}}
    \cup {fileId[r] : r \in {q \in ActiveRuns : chat[q] = c}}

FreshFile(c) ==
    CHOOSE f \in 1..(Len(ledger) + Cardinality(Runs) + 1) :
        f \notin KnownFiles(c) /\ \A g \in 1..(f - 1) : g \in KnownFiles(c)

\* message:photo / message:document arrives: processImage begins for (c, f)
Begin(r, c, f) ==
    /\ pc[r] = "idle"
    /\ (nextId - 1) + Cardinality(ActiveRuns) < MaxRows
    /\ pc' = [pc EXCEPT ![r] = "canProcess"]
    /\ chat' = [chat EXCEPT ![r] = c]
    /\ fileId' = [fileId EXCEPT ![r] = f]
    /\ before' = [before EXCEPT ![r] =
                    [ledger |-> ledger, used |-> subs[c].transactions_used]]
    /\ cmd' = NoCmd
    /\ UNCHANGED <<now, subs, ledger, sub, check, result, reply, expiredNotified, nextId, activatedAt, serviceVars>>

Submit(r) ==
    \E c \in Chats : \E f \in KnownFiles(c) \cup {FreshFile(c)} :
        Begin(r, c, f) /\ UNCHANGED submitted

\* canProcess, line 369: getOrCreateSubscription
CanProcessLoad(r) ==
    /\ pc[r] = "canProcess"
    /\ subs' = getOrCreateSubscription(subs, chat[r])
    /\ period_start' = insertedPeriodStart(period_start, subs, chat[r], now)
    /\ sub' = [sub EXCEPT ![r] = subs'[chat[r]]]
    /\ pc' = [pc EXCEPT ![r] = "decide"]
    /\ UNCHANGED <<now, ledger, chat, fileId, check, result, reply, submitted, before, expiredNotified, nextId, cmd, activatedAt, payments, vision, configVars, promptVars>>

\* canProcess, lines 370-477, and processImage's branch on check.allowed
CanProcessDecide(r) ==
    /\ pc[r] = "decide"
    /\ subs' = IF canProcessDowngrades(sub[r], now)
               THEN downgradeToFree(subs, chat[r]) ELSE subs
    /\ check' = [check EXCEPT ![r] =
                    canProcess(sub[r], getTodayTransactionCount(ledger, chat[r], now), now)]
    /\ IF check'[r].allowed
       THEN pc' = [pc EXCEPT ![r] = "isDuplicate"] /\ reply' = reply
       ELSE pc' = [pc EXCEPT ![r] = "done"] /\ reply' = [reply EXCEPT ![r] = "limit"]
    /\ sub' = [sub EXCEPT ![r] = NoSub]
    /\ expiredNotified' = [expiredNotified EXCEPT ![chat[r]] = @ \/ check'[r].expired]
    /\ activatedAt' = IF canProcessDowngrades(sub[r], now)
                      THEN [activatedAt EXCEPT ![chat[r]] = Null] ELSE activatedAt
    /\ UNCHANGED <<now, ledger, chat, fileId, result, submitted, before, nextId, cmd, serviceVars>>

\* getOrCreateSubscription, line 308: getSubscription reads the chat's row; the
\* insert is a second round trip, taken when the read found no row
GetSubscription(r) ==
    /\ pc[r] = "canProcess"
    /\ sub' = [sub EXCEPT ![r] = subs[chat[r]]]
    /\ pc' = [pc EXCEPT ![r] = IF subs[chat[r]] = NoSub THEN "insertSubscription"
                               ELSE "decide"]
    /\ UNCHANGED <<now, subs, ledger, chat, fileId, check, result, reply, submitted, before, expiredNotified, nextId, cmd, activatedAt, serviceVars>>

\* getOrCreateSubscription, lines 310-318: the insert of the default row; UNIQUE
\* (chat_id) refuses it when the chat has got a row since the read, the error is
\* thrown, and bot.catch answers
InsertSubscription(r) ==
    /\ pc[r] = "insertSubscription"
    /\ period_start' = insertedPeriodStart(period_start, subs, chat[r], now)
    /\ IF subs[chat[r]] = NoSub
       THEN /\ subs' = [subs EXCEPT ![chat[r]] = DefaultSub]
            /\ sub' = [sub EXCEPT ![r] = DefaultSub]
            /\ pc' = [pc EXCEPT ![r] = "decide"]
            /\ reply' = reply
       ELSE /\ subs' = subs
            /\ sub' = sub
            /\ pc' = [pc EXCEPT ![r] = "done"]
            /\ reply' = [reply EXCEPT ![r] = "error"]
    /\ UNCHANGED <<now, ledger, chat, fileId, check, result, submitted, before, expiredNotified, nextId, cmd, activatedAt, payments, vision, configVars, promptVars>>

\* a store operation of canProcess comes back with an error: cmd keeps which one
StoreFailure(c, operation) ==
    [op |-> "storeFailure", chat |-> c, arg |-> <<operation>>, ret |-> Null]

\* canProcess, line 369, with the store failing: getSubscription drops the error and
\* returns null, the insert that follows fails as well and its error is thrown;
\* processImage calls canProcess outside its try block, bot.catch answers
CanProcessLoadFails(r) ==
    /\ pc[r] = "canProcess"
    /\ pc' = [pc EXCEPT ![r] = "done"]
    /\ reply' = [reply EXCEPT ![r] = "error"]
    /\ cmd' = StoreFailure(chat[r], "getOrCreateSubscription")
    /\ UNCHANGED <<now, subs, ledger, chat, fileId, sub, check, result, submitted, before, expiredNotified, nextId, activatedAt, serviceVars>>

\* canProcess, lines 370-477, with the store failing: downgradeToFree awaits the
\* update without looking at its error, and getTodayTransactionCount returns
\* count ?? 0 without looking at its error; neither throws
CanProcessDecideStoreFails(r) ==
    \E downgradeFails \in BOOLEAN, countFails \in BOOLEAN :
        /\ pc[r] = "decide"
        /\ \/ downgradeFails /\ canProcessDowngrades(sub[r], now)
           \/ countFails /\ (canProcessDowngrades(sub[r], now) \/ sub[r].plan = "free")
        /\ downgradeFails => canProcessDowngrades(sub[r], now)
        /\ countFails => canProcessDowngrades(sub[r], now) \/ sub[r].plan = "free"
        /\ subs' = IF canProcessDowngrades(sub[r], now) /\ ~downgradeFails
                   THEN downgradeToFree(subs, chat[r]) ELSE subs
        /\ check' = [check EXCEPT ![r] =
                        canProcess(sub[r],
                                   IF countFails THEN 0
                                   ELSE getTodayTransactionCount(ledger, chat[r], now),
                                   now)]
        /\ IF check'[r].allowed
           THEN pc' = [pc EXCEPT ![r] = "isDuplicate"] /\ reply' = reply
           ELSE pc' = [pc EXCEPT ![r] = "done"] /\ reply' = [reply EXCEPT ![r] = "limit"]
        /\ sub' = [sub EXCEPT ![r] = NoSub]
        /\ expiredNotified' = [expiredNotified EXCEPT ![chat[r]] = @ \/ check'[r].expired]
        /\ activatedAt' = IF canProcessDowngrades(sub[r], now) /\ ~downgradeFails
                          THEN [activatedAt EXCEPT ![chat[r]] = Null] ELSE activatedAt
        /\ cmd' = StoreFailure(chat[r],
                               IF downgradeFails /\ countFails THEN "both"
                               ELSE IF downgradeFails THEN "downgradeToFree"
                               ELSE "getTodayTransactionCount")
        /\ UNCHANGED <<now, ledger, chat, fileId, result, submitted, before, nextId, serviceVars>>

\* processImage, lines 497-501
CheckDuplicate(r) ==
    /\ pc[r] = "isDuplicate"
    /\ IF isDuplicate(ledger, chat[r], fileId[r])
       THEN pc' = [pc EXCEPT ![r] = "done"] /\ reply' = [reply EXCEPT ![r] = "duplicate"]
       ELSE pc' = [pc EXCEPT ![r] = "extract"] /\ reply' = reply
    /\ UNCHANGED <<now, subs, ledger, chat, fileId, sub, check, result, submitted, before, expiredNotified, nextId, cmd, activatedAt, serviceVars>>

\* processImage, lines 505-526: download, extraction, the amount === null branch
ExtractOf(r, amount) ==
    /\ pc[r] = "extract"
    /\ result' = [result EXCEPT ![r] = amount]
    /\ IF amount = AmountNull
       THEN pc' = [pc EXCEPT ![r] = "done"] /\ reply' = [reply EXCEPT ![r] = "no_amount"]
       ELSE pc' = [pc EXCEPT ![r] = "save"] /\ reply' = reply
    /\ UNCHANGED <<now, subs, ledger, chat, fileId, sub, check, submitted, before, expiredNotified, nextId, cmd, activatedAt, serviceVars>>

Extract(r) ==
    \E isPdf \in BOOLEAN, haiku \in ApiResponses, sonnet \in ApiResponses, v \in Amounts :
        ExtractOf(r, extractPixData(isPdf, haiku, sonnet, v))

\* withRetry's maxRetries
MAX_RETRIES == 3

\* mutant: one more attempt than maxRetries
retriesAfterOnceMore(attempt) == attempt <= MAX_RETRIES

\* withRetry, lines 41-50: after attempt number attempt has thrown the loop goes on
\* while attempt < maxRetries; after the last one lastError is thrown
retriesAfter(attempt) == attempt < MAX_RETRIES

\* extractPixData, lines 128-136: Sonnet is called for a PDF, Haiku for an image
ExtractStart(r, isPdf) ==
    /\ pc[r] = "extract"
    /\ vision[r].model \notin {"haiku", "sonnet"}
    /\ vision' = [vision EXCEPT ![r] =
                     [model |-> IF isPdf THEN "sonnet" ELSE "haiku", attempt |-> 0,
                      calls |-> 0, isPdf |-> isPdf, last |-> "none"]]
    /\ UNCHANGED <<now, subs, ledger, pc, chat, fileId, sub, check, result, reply, submitted, before, expiredNotified, nextId, cmd, activatedAt, payments, periodVars, configVars, promptVars>>

\* one attempt of withRetry inside extractWithModel, answered with resp. A throw is
\* retried or, after the last attempt, thrown on and caught by extractPixData,
\* which returns amount null; an answer ends the model's call, and Haiku's answer
\* with amount null is followed by the call of Sonnet
VisionAttempt(r, resp) ==
    /\ pc[r] = "extract"
    /\ vision[r].model \in {"haiku", "sonnet"}
    /\ \E v \in Amounts :
         LET n == vision[r].attempt + 1
             calls == vision[r].calls + 1
             amount == IF resp = "throws" THEN AmountNull
                       ELSE parseExtractionResponse(resp, v)
             finished(last) == [vision EXCEPT ![r] =
                                   [@ EXCEPT !.model = "done", !.attempt = n,
                                             !.calls = calls, !.last = last]]
         IN  IF resp = "throws" /\ retriesAfter(n)
             THEN /\ vision' = [vision EXCEPT ![r] =
                                   [@ EXCEPT !.attempt = n, !.calls = calls,
                                             !.last = "throws"]]
                  /\ UNCHANGED <<pc, result, reply>>
             ELSE IF resp # "throws" /\ vision[r].model = "haiku" /\ amount = AmountNull
             THEN /\ vision' = [vision EXCEPT ![r] =
                                   [@ EXCEPT !.model = "sonnet", !.attempt = 0,
                                             !.calls = calls, !.last = "answer"]]
                  /\ UNCHANGED <<pc, result, reply>>
             ELSE /\ vision' = finished(IF resp = "throws" THEN "throws" ELSE "answer")
                  /\ result' = [result EXCEPT ![r] = amount]
                  /\ IF amount = AmountNull
                     THEN /\ pc' = [pc EXCEPT ![r] = "done"]
                          /\ reply' = [reply EXCEPT ![r] = "no_amount"]
                     ELSE /\ pc' = [pc EXCEPT ![r] = "save"]
                          /\ reply' = reply
    /\ UNCHANGED <<now, subs, ledger, chat, fileId, sub, check, submitted, before, expiredNotified, nextId, cmd, activatedAt, payments, periodVars, configVars, promptVars>>

\* the amounts a model may put into its JSON answer: nothing in vision.ts looks at
\* the value of parsed.amount
VisionAmounts == {10, 0, -5}

\* the extraction comes back with whatever amount the model answered
ExtractAnyAmount(r) ==
    \E haiku \in {"amount_null", "amount"}, v \in VisionAmounts :
        ExtractOf(r, extractPixData(FALSE, haiku, "amount", v))

\* processImage, lines 507-512 throw (getFile / fetch): caught at line 537
DownloadFails(r) ==
    /\ pc[r] = "extract"
    /\ pc' = [pc EXCEPT ![r] = "done"]
    /\ reply' = [reply EXCEPT ![r] = "error"]
    /\ UNCHANGED <<now, subs, ledger, chat, fileId, sub, check, result, submitted, before, expiredNotified, nextId, cmd, activatedAt, serviceVars>>

\* mutant: the amount column takes a missing amount (stored as 0)
SaveTransactionNullable(r) ==
    /\ pc[r] = "save"
    /\ ledger' = Append(ledger, NewRow(nextId, chat[r],
                        IF result[r] = AmountUndefined THEN 0 ELSE result[r][2],
                        fileId[r], now))
    /\ nextId' = nextId + 1
    /\ pc' = [pc EXCEPT ![r] = "incrementUsage"]
    /\ UNCHANGED <<now, subs, chat, fileId, sub, check, result, reply, submitted, before, expiredNotified, cmd, activatedAt, serviceVars>>

\* saveTransaction inserts the row; amount is NOT NULL, so an undefined amount
\* (dropped from the JSON body) is refused by the store
SaveTransaction(r) ==
    /\ pc[r] = "save"
    /\ result[r][1] = "number"
    /\ ledger' = Append(ledger, NewRow(nextId, chat[r], result[r][2], fileId[r], now))
    /\ nextId' = nextId + 1
    /\ pc' = [pc EXCEPT ![r] = "incrementUsage"]
    /\ UNCHANGED <<now, subs, chat, fileId, sub, check, result, reply, submitted, before, expiredNotified, cmd, activatedAt, serviceVars>>

\* saveTransaction throws (constraint violation or store failure): caught at line 537
SaveFails(r) ==
    /\ pc[r] = "save"
    /\ pc' = [pc EXCEPT ![r] = "done"]
    /\ reply' = [reply EXCEPT ![r] = "error"]
    /\ UNCHANGED <<now, subs, ledger, chat, fileId, sub, check, result, submitted, before, expiredNotified, nextId, cmd, activatedAt, serviceVars>>

\* incrementUsage, line 504: getOrCreateSubscription
IncrementLoad(r) ==
    /\ pc[r] = "incrementUsage"
    /\ subs' = getOrCreateSubscription(subs, chat[r])
    /\ period_start' = insertedPeriodStart(period_start, subs, chat[r], now)
    /\ sub' = [sub EXCEPT ![r] = subs'[chat[r]]]
    /\ pc' = [pc EXCEPT ![r] = "increment"]
    /\ UNCHANGED <<now, ledger, chat, fileId, check, result, reply, submitted, before, expiredNotified, nextId, cmd, activatedAt, payments, vision, configVars, promptVars>>

\* incrementUsage, lines 507-512, then the running total is sent
IncrementWrite(r) ==
    /\ pc[r] = "increment"
    /\ subs' = incrementUsage(subs, chat[r], sub[r])
    /\ sub' = [sub EXCEPT ![r] = NoSub]
    /\ pc' = [pc EXCEPT ![r] = "done"]
    /\ reply' = [reply EXCEPT ![r] = "total"]
    /\ UNCHANGED <<now, ledger, chat, fileId, check, result, submitted, before, expiredNotified, nextId, cmd, activatedAt, serviceVars>>

\* the handler has returned; the run's locals are gone
Return(r) ==
    /\ pc[r] = "done"
    /\ pc' = [pc EXCEPT ![r] = "idle"]
    /\ chat' = [chat EXCEPT ![r] = 1]
    /\ fileId' = [fileId EXCEPT ![r] = 0]
    /\ check' = [check EXCEPT ![r] = NoDecision]
    /\ result' = [result EXCEPT ![r] = NoAmount]
    /\ reply' = [reply EXCEPT ![r] = "none"]
    /\ before' = [before EXCEPT ![r] = NoBefore]
    /\ UNCHANGED <<now, subs, ledger, sub, submitted, expiredNotified, nextId, cmd, activatedAt, serviceVars>>

\* the wall clock advances
Tick ==
    /\ now < MaxTime
    /\ now' = now + 1
    /\ UNCHANGED <<subs, ledger, pc, chat, fileId, sub, check, result, reply,
                   submitted, before, expiredNotified, nextId, cmd, activatedAt, serviceVars>>

\* the steps of a run after its start
Pipeline(r) ==
    \/ CanProcessLoad(r)
    \/ CanProcessDecide(r)
    \/ CheckDuplicate(r)
    \/ Extract(r)
    \/ DownloadFails(r)
    \/ SaveTransaction(r)
    \/ SaveFails(r)
    \/ IncrementLoad(r)
    \/ IncrementWrite(r)
    \/ Return(r)

\* receipts are handled one after the other (spec section 5: serial interaction)
Next ==
    \/ Submit(1)
    \/ Pipeline(1)
    \/ Tick

Spec == Init /\ [][Next]_vars

\* two receipts may be in the pipeline at the same time
NextConcurrent ==
    \/ \E r \in Runs : Submit(r)
    \/ \E r \in Runs : Pipeline(r)
    \/ Tick

SpecConcurrent == Init /\ [][NextConcurrent]_vars

(* ---------------- the scenario of one free-tier day -------------------- *)

\* a fresh database: no ledger rows, chats are new or on the free defaults
InitFreeDay ==
    /\ now = 0
    /\ subs \in [Chats -> {NoSub, DefaultSub}]
    /\ ledger = << >>
    /\ InitRuns
    /\ ADMIN_CHAT_ID = DeployedAdmin
    /\ payments = NoPayments

\* the chat's next receipt carries a file id it has never sent before
SubmitDistinct(r) ==
    \E c \in Chats :
        /\ submitted[c] < MaxSubmissions
        /\ Begin(r, c, submitted[c] + 1)
        /\ submitted' = [submitted EXCEPT ![c] = @ + 1]

\* the vision model reads an amount
ExtractAmount(r) == \E v \in Amounts : ExtractOf(r, AmountOf(v))

\* the clock advances within the calendar day
TickToday == Tick /\ getStartOfTodayISO(now + 1) = getStartOfTodayISO(now)

\* receipts with distinct file ids, each extracting an amount and each appended,
\* one after the other on one calendar day
NextFreeDay ==
    \/ SubmitDistinct(1)
    \/ CanProcessLoad(1)
    \/ CanProcessDecide(1)
    \/ CheckDuplicate(1)
    \/ ExtractAmount(1)
    \/ SaveTransaction(1)
    \/ IncrementLoad(1)
    \/ IncrementWrite(1)
    \/ Return(1)
    \/ TickToday

SpecFreeDay == InitFreeDay /\ [][NextFreeDay]_vars

(* ------------------- database.ts: the ledger commands ------------------ *)

\* .delete().eq("id", id)
DeleteById(led, id) == SelectSeq(led, LAMBDA row : row.id # id)

\* getTodayTransactions: the chat's rows of today, .order("created_at", ascending);
\* the store's clock never runs backwards, so this is the insertion order
getTodayTransactions(led, c, t) == TodayRows(led, c, t)

RECURSIVE SumAmounts(_)
SumAmounts(rows) ==
    IF Len(rows) = 0 THEN 0 ELSE rows[1].amount + SumAmounts(Tail(rows))

\* getTodayStats: the sum and the number of the chat's rows of today
getTodayStats(led, c, t) ==
    [total |-> SumAmounts(TodayRows(led, c, t)), count |-> Len(TodayRows(led, c, t))]

\* mutant: the position is taken as 0-based
deleteTransactionByIndexZeroBased(led, c, index, t) ==
    LET transactions == getTodayTransactions(led, c, t)
        targetIndex == IF index = Null THEN Len(transactions) - 1 ELSE index[1]
    IN  IF Len(transactions) = 0 \/ targetIndex < 0 \/ targetIndex >= Len(transactions)
        THEN [ledger |-> led, ret |-> Null]
        ELSE [ledger |-> DeleteById(led, transactions[targetIndex + 1].id),
              ret |-> <<transactions[targetIndex + 1]>>]

\* mutant: without a position the oldest row of today is taken
deleteTransactionByIndexOldestByDefault(led, c, index, t) ==
    LET transactions == getTodayTransactions(led, c, t)
        targetIndex == IF index = Null THEN 0 ELSE index[1] - 1
    IN  IF Len(transactions) = 0 \/ targetIndex < 0 \/ targetIndex >= Len(transactions)
        THEN [ledger |-> led, ret |-> Null]
        ELSE [ledger |-> DeleteById(led, transactions[targetIndex + 1].id),
              ret |-> <<transactions[targetIndex + 1]>>]

\* deleteTransactionByIndex: index is 1-based, undefined (<< >>) means the last row
deleteTransactionByIndex(led, c, index, t) ==
    LET transactions == getTodayTransactions(led, c, t)
        targetIndex == IF index = Null THEN Len(transactions) - 1 ELSE index[1] - 1
    IN  IF Len(transactions) = 0 \/ targetIndex < 0 \/ targetIndex >= Len(transactions)
        THEN [ledger |-> led, ret |-> Null]
        ELSE [ledger |-> DeleteById(led, transactions[targetIndex + 1].id),
              ret |-> <<transactions[targetIndex + 1]>>]

\* mutant: the update is keyed by the chat, not by the row's id
updateLastTransactionAmountWholeChat(led, c, newAmount, t) ==
    LET today == TodayRows(led, c, t)
    IN  IF Len(today) = 0
        THEN [ledger |-> led, ret |-> Null]
        ELSE [ledger |-> [i \in 1..Len(led) |->
                            IF led[i].chat_id = c
                            THEN [led[i] EXCEPT !.amount = newAmount] ELSE led[i]],
              ret |-> <<[today[Len(today)] EXCEPT !.amount = newAmount]>>]

\* updateLastTransactionAmount: the chat's row of today with the latest created_at
updateLastTransactionAmount(led, c, newAmount, t) ==
    LET today == TodayRows(led, c, t)
    IN  IF Len(today) = 0
        THEN [ledger |-> led, ret |-> Null]
        ELSE LET lastTx == today[Len(today)]
             IN  [ledger |-> [i \in 1..Len(led) |->
                                IF led[i].id = lastTx.id
                                THEN [led[i] EXCEPT !.amount = newAmount] ELSE led[i]],
                  ret |-> <<[lastTx EXCEPT !.amount = newAmount]>>]

\* mutant: the day filter is missing from the delete
clearTodayTransactionsAllDays(led, c, t) ==
    [ledger |-> SelectSeq(led, LAMBDA row : row.chat_id # c),
     ret |-> <<Len(led) - Len(SelectSeq(led, LAMBDA row : row.chat_id # c))>>]

\* clearTodayTransactions: delete the chat's rows of today, return how many
clearTodayTransactions(led, c, t) ==
    LET kept == SelectSeq(led, LAMBDA row :
                    ~(row.chat_id = c /\ row.created_at >= getStartOfTodayISO(t)))
    IN  [ledger |-> kept, ret |-> <<Len(led) - Len(kept)>>]

\* the amounts /editar is given
EditAmounts == {20}

\* the apagar callback (or a direct call without a position)
DeleteTransactionByIndex(c, index) ==
    LET out == deleteTransactionByIndex(ledger, c, index, now)
    IN  /\ ledger' = out.ledger
        /\ cmd' = [op |-> "delete", chat |-> c, arg |-> index, ret |-> out.ret]
        /\ UNCHANGED <<now, subs, pc, chat, fileId, sub, check, result, reply,
                       submitted, before, expiredNotified, nextId, activatedAt, serviceVars>>

\* /editar <amount>
UpdateLastTransactionAmount(c, newAmount) ==
    LET out == updateLastTransactionAmount(ledger, c, newAmount, now)
    IN  /\ ledger' = out.ledger
        /\ cmd' = [op |-> "update", chat |-> c, arg |-> <<newAmount>>, ret |-> out.ret]
        /\ UNCHANGED <<now, subs, pc, chat, fileId, sub, check, result, reply,
                       submitted, before, expiredNotified, nextId, activatedAt, serviceVars>>

\* what the user may type after /editar: a number, zero, a negative number, a word,
\* nothing
TypedAmounts == {<<"2", "0">>, <<"0">>, <<"-", "2">>, <<"x">>, << >>}

\* args.replace(",", ".").replace(/[^\d.]/g, "") of a text without separators
cleanAmount(text) == SelectSeq(text, IsDigit)

\* parseFloat of a string of digits; NaN (Null) for the empty string
parseFloat(s) == parseInt(s)

\* /editar <text>: the usage hint without an argument, the refusal of an amount
\* that is not a number above 0, else the update of the last row of today
Editar(c, text) ==
    \E newAmount \in {parseFloat(cleanAmount(text))} :
        /\ IF text = << >>
           THEN /\ ledger' = ledger
                /\ cmd' = [op |-> "editar", chat |-> c, arg |-> <<text>>, ret |-> <<"usage">>]
           ELSE IF newAmount = Null \/ newAmount[1] <= 0
           THEN /\ ledger' = ledger
                /\ cmd' = [op |-> "editar", chat |-> c, arg |-> <<text>>, ret |-> <<"invalid">>]
           ELSE \E out \in {updateLastTransactionAmount(ledger, c, newAmount[1], now)} :
                /\ ledger' = out.ledger
                /\ cmd' = [op |-> "editar", chat |-> c, arg |-> <<text>>,
                           ret |-> IF out.ret = Null THEN <<"none">> ELSE <<"edited">>]
        /\ UNCHANGED <<now, subs, pc, chat, fileId, sub, check, result, reply,
                       submitted, before, expiredNotified, nextId, activatedAt, serviceVars>>

\* /limpar
ClearTodayTransactions(c) ==
    LET out == clearTodayTransactions(ledger, c, now)
    IN  /\ ledger' = out.ledger
        /\ cmd' = [op |-> "clear", chat |-> c, arg |-> Null, ret |-> out.ret]
        /\ UNCHANGED <<now, subs, pc, chat, fileId, sub, check, result, reply,
                       submitted, before, expiredNotified, nextId, activatedAt, serviceVars>>

\* the ledger commands of a chat; the positions offered reach one past either end
LedgerCommand(c) ==
    \/ \E index \in {Null} \cup {<<k>> : k \in 0..(Len(TodayRows(ledger, c, now)) + 1)} :
          DeleteTransactionByIndex(c, index)
    \/ \E a \in EditAmounts : UpdateLastTransactionAmount(c, a)
    \/ ClearTodayTransactions(c)

(* ------------- bot.ts: the pending interactive messages --------------- *)

\* everything but the pending interactive messages and their handlers
storeVars == <<now, subs, ledger, pc, chat, fileId, sub, check, result, reply,
               submitted, before, expiredNotified, nextId, cmd, activatedAt,
               payments, vision, periodVars, configVars>>

\* String.prototype.startsWith
startsWith(text, prefix) ==
    Len(text) >= Len(prefix) /\ SubSeq(text, 1, Len(prefix)) = prefix

\* bot.command(name): the text is the command, alone or followed by its arguments
isCommand(text, name) ==
    /\ Len(text) >= 1 /\ text[1] = name
    /\ Len(text) = 1 \/ text[2] = " "

\* what a chat sends as a message: a photo (no text), /total, /apagar, and a text
\* that goes on after /apagar without being the command
MessageTexts == {<< >>, <<"/total">>, <<"/apagar">>, <<"/apagar", "tudo">>}

\* the callback data after "apagar:": cancel, a position, and data the bot never
\* put on a button
CallbackActions == {<<"cancelar">>, <<"1">>, <<"x">>}

\* a handler that is not running
Idle == [pc |-> "idle", kind |-> "none", target |-> 0, arg |-> Null]

\* a handler at an await
Awaiting(at, kind, target, arg) == [pc |-> at, kind |-> kind, target |-> target, arg |-> arg]

\* the message ids Telegram has not given to a prompt that is displayed, tracked or
\* about to be deleted by a handler
FreeMessageIds ==
    MessageIds \ (displayed
                  \cup {handlers[t].target : t \in Tasks}
                  \cup {pendingMessages[c][1].messageId :
                          c \in {d \in Chats : pendingMessages[d] # Null}})

\* the middleware is done, next(): the /apagar handler awaits the chat's rows of
\* today, any other handler its own work
afterMiddleware(text) ==
    IF isCommand(text, "/apagar") THEN Awaiting("list", "apagar", 0, text)
    ELSE Awaiting("handle", "message", 0, text)

\* the middleware, lines 80-90: clearPendingMessage unless the text starts with
\* /apagar; clearPendingMessage awaits deleteMessage when the chat has an entry
middleware(pm, c, text) ==
    IF ~startsWith(text, <<"/apagar">>) /\ pm[c] # Null
    THEN Awaiting("deleting", "message", pm[c][1].messageId, text)
    ELSE afterMiddleware(text)

\* a message of chat c reaches handler h
ReceiveMessage(h, c, text) ==
    /\ handlers[h].pc = "idle"
    /\ handlers' = [handlers EXCEPT ![h] = middleware(pendingMessages, c, text)]
    /\ UNCHANGED <<pendingMessages, displayed, storeVars>>

\* the apagar handler, lines 133-155: getTodayTransactions has returned; without
\* rows it answers and returns, else it calls clearPendingMessage and then replies
ApagarList(h, c) ==
    /\ handlers[h].pc = "list"
    /\ handlers' = [handlers EXCEPT ![h] =
          IF Len(getTodayTransactions(ledger, c, now)) = 0 THEN Idle
          ELSE IF pendingMessages[c] # Null
          THEN Awaiting("deleting", "apagar", pendingMessages[c][1].messageId, @.arg)
          ELSE Awaiting("reply", "apagar", 0, @.arg)]
    /\ UNCHANGED <<pendingMessages, displayed, storeVars>>

\* clearPendingMessage, lines 41-46, after the await: pendingMessages.delete(chatId)
clearPendingMessage(pm, c) == [pm EXCEPT ![c] = Null]

\* deleteMessage of clearPendingMessage has returned for task t: ok, or with an
\* error that is swallowed (the message is gone already, or the call failed); the
\* entry of the chat is deleted and the caller goes on
ClearReturns(t, c, ok) ==
    /\ handlers[t].pc = "deleting"
    /\ ok => handlers[t].target \in displayed
    /\ displayed' = IF ok THEN displayed \ {handlers[t].target} ELSE displayed
    /\ pendingMessages' = clearPendingMessage(pendingMessages, c)
    /\ handlers' = [handlers EXCEPT ![t] =
          IF @.kind = "apagar" THEN Awaiting("reply", "apagar", 0, @.arg)
          ELSE IF @.kind = "message" THEN afterMiddleware(@.arg)
          ELSE Idle]
    /\ UNCHANGED storeVars

\* setPendingMessage: the entry of the chat is set, its age starts at 0
setPendingMessage(pm, c, messageId) ==
    [pm EXCEPT ![c] = <<[messageId |-> messageId, age |-> 0]>>]

\* the apagar handler, lines 156-157: ctx.reply has sent the prompt as message m
\* and the handler tracks it; or ctx.reply has thrown and nothing is tracked
ApagarReplied(h, c, ok) ==
    /\ handlers[h].pc = "reply"
    /\ IF ok
       THEN \E m \in FreeMessageIds :
               /\ \A k \in FreeMessageIds : m <= k
               /\ displayed' = displayed \cup {m}
               /\ pendingMessages' = setPendingMessage(pendingMessages, c, m)
       ELSE UNCHANGED <<displayed, pendingMessages>>
    /\ handlers' = [handlers EXCEPT ![h] = Idle]
    /\ UNCHANGED storeVars

\* the apagar callback, lines 161-177: the button of prompt m is pressed; the entry
\* of the chat is deleted at once, then cancel deletes the prompt, a position
\* deletes the row and then the prompt, anything else is answered with an error
ReceiveCallback(h, c, m, action) ==
    /\ handlers[h].pc = "idle"
    /\ m \in displayed
    /\ pendingMessages' = [pendingMessages EXCEPT ![c] = Null]
    /\ handlers' = [handlers EXCEPT ![h] =
          IF action = <<"cancelar">> THEN Awaiting("deleteMessage", "callback", m, action)
          ELSE IF parseInt(action) = Null THEN Awaiting("answer", "callback", 0, action)
          ELSE Awaiting("deleteTransaction", "callback", m, action)]
    /\ UNCHANGED <<displayed, storeVars>>

\* the apagar callback, lines 180-182: deleteTransactionByIndex has returned
CallbackDeletesRow(h, c) ==
    /\ handlers[h].pc = "deleteTransaction"
    /\ \E out \in {deleteTransactionByIndex(ledger, c, parseInt(handlers[h].arg), now)} :
           /\ ledger' = out.ledger
           /\ cmd' = [op |-> "delete", chat |-> c, arg |-> parseInt(handlers[h].arg),
                      ret |-> out.ret]
    /\ handlers' = [handlers EXCEPT ![h] = [@ EXCEPT !.pc = "deleteMessage"]]
    /\ UNCHANGED <<now, subs, pc, chat, fileId, sub, check, result, reply, submitted,
                   before, expiredNotified, nextId, activatedAt, payments, vision,
                   periodVars, configVars, pendingMessages, displayed>>

\* the apagar callback, lines 171, 187, 192: ctx.deleteMessage has returned, ok or
\* with an error that bot.catch takes
CallbackDeletesMessage(h, ok) ==
    /\ handlers[h].pc = "deleteMessage"
    /\ ok => handlers[h].target \in displayed
    /\ displayed' = IF ok THEN displayed \ {handlers[h].target} ELSE displayed
    /\ handlers' = [handlers EXCEPT ![h] = Idle]
    /\ UNCHANGED <<pendingMessages, storeVars>>

\* a handler that has nothing more to do with the pending messages returns
HandlerReturns(h) ==
    /\ handlers[h].pc \in {"handle", "answer"}
    /\ handlers' = [handlers EXCEPT ![h] = Idle]
    /\ UNCHANGED <<pendingMessages, displayed, storeVars>>

\* the entry as the next callback of the timer sees it: one interval older
aged(pm) ==
    [c \in Chats |->
        IF pm[c] = Null THEN Null
        ELSE <<[pm[c][1] EXCEPT !.age = IF @ > PENDING_MESSAGE_TTL THEN @ ELSE @ + 1]>>]

\* startPendingMessageCleanup, line 59: now - pending.createdAt > PENDING_MESSAGE_TTL
cleanupExpires(pm, c) == pm[c] # Null /\ pm[c][1].age > PENDING_MESSAGE_TTL

\* startPendingMessageCleanup, lines 55-64: the interval has passed and the timer's
\* callback runs; a deleteMessage call returns within the interval
CleanupTick(c) ==
    /\ handlers[Timer].pc = "idle"
    /\ pendingMessages' = aged(pendingMessages)
    /\ handlers' = [handlers EXCEPT ![Timer] =
          IF cleanupExpires(pendingMessages', c)
          THEN Awaiting("deleting", "cleanup", pendingMessages'[c][1].messageId, Null)
          ELSE Idle]
    /\ UNCHANGED <<displayed, storeVars>>

\* the steps of the handlers of chat c that are at an await
HandlerStep(h, c) ==
    \/ ApagarList(h, c)
    \/ \E ok \in BOOLEAN : ClearReturns(h, c, ok)
    \/ \E ok \in BOOLEAN : ApagarReplied(h, c, ok)
    \/ CallbackDeletesRow(h, c)
    \/ \E ok \in BOOLEAN : CallbackDeletesMessage(h, ok)
    \/ HandlerReturns(h)

(* ------------- subscription.ts / bot.ts: the plan operations ----------- *)

PaidPlans == {"basico", "pro", "ultra"}

\* new Date("2099-12-31T23:59:59Z"): an instant beyond every period of the model
GRANT_PERIOD_END == 2099

\* mutant: every upsert resolves the conflict on chat_id by updating the row
upsertSubscriptionOnChatId(ss, c, row, onConflict) ==
    [subs |-> [ss EXCEPT ![c] = row], error |-> FALSE]

\* the subscriptions table's upsert, INSERT ... ON CONFLICT (target) DO UPDATE: the
\* target is the primary key id unless onConflict names another unique column. No
\* payload carries an id, the sequence gives it a fresh one, so under the default
\* target the statement is a plain INSERT and UNIQUE (chat_id) refuses a second row
upsertSubscription(ss, c, row, onConflict) ==
    IF onConflict = "chat_id" \/ ss[c] = NoSub
    THEN [subs |-> [ss EXCEPT ![c] = row], error |-> FALSE]
    ELSE [subs |-> ss, error |-> TRUE]

\* mutant: the period runs 30 days whatever the month
activateSubscription30Days(ss, c, plan, t) ==
    upsertSubscription(ss, c, [plan |-> plan, transactions_used |-> 0,
                               period_end |-> <<t + 30 * TicksPerDay>>], "id")

\* activateSubscription: upsert without onConflict; error: it throws
activateSubscription(ss, c, plan, t) ==
    upsertSubscription(ss, c, [plan |-> plan, transactions_used |-> 0,
                               period_end |-> <<AddMonth(t)>>], "id")

\* mutant: the update is not filtered by plan
resetMonthlyUsageEveryRow(ss, ps, t) ==
    [subs |-> [c \in Chats |->
                  IF ss[c].plan # "none"
                  THEN [ss[c] EXCEPT !.transactions_used = 0] ELSE ss[c]],
     period_start |-> [c \in Chats |-> IF ss[c].plan # "none" THEN <<t>> ELSE ps[c]],
     count |-> Cardinality({c \in Chats : ss[c].plan # "none"})]

\* resetMonthlyUsage: transactions_used = 0 and period_start = now on every row
\* whose plan is not free; data.length is the number of rows updated
resetMonthlyUsage(ss, ps, t) ==
    [subs |-> [c \in Chats |->
                  IF ss[c].plan \notin {"free", "none"}
                  THEN [ss[c] EXCEPT !.transactions_used = 0] ELSE ss[c]],
     period_start |-> [c \in Chats |->
                  IF ss[c].plan \notin {"free", "none"} THEN <<t>> ELSE ps[c]],
     count |-> Cardinality({c \in Chats : ss[c].plan \notin {"free", "none"}})]

(* ---------------------- payments.ts: Mercado Pago ---------------------- *)

\* process.env.MERCADO_PAGO_ACCESS_TOKEN and MERCADO_PAGO_WEBHOOK_SECRET of the
\* deployment: both are configured
MP_ACCESS_TOKEN == <<"token">>

MP_WEBHOOK_SECRET == <<"secret">>

\* PLANS[plan].price
PLANS_price(plan) ==
    CASE plan = "free" -> 0
      [] plan = "basico" -> 197
      [] plan = "pro" -> 349
      [] plan = "ultra" -> 697

\* `${chatId}:${plan}`
ExternalReference(c, plan) == <<ToDigit(c), ":", plan>>

\* hmac.digest("hex"): a digest of fixed length that depends on every token of the
\* manifest
hmac(secret, manifest) ==
    LET code(tok) == CASE tok = "1" -> 1 [] tok = "2" -> 2 [] tok = "r1" -> 3
                       [] tok = "t1" -> 5 [] OTHER -> 0
        sum[i \in 0..Len(manifest)] ==
            IF i = 0 THEN Len(secret) ELSE sum[i - 1] + code(manifest[i])
        hex == <<"a", "b", "c", "d">>
        n == sum[Len(manifest)]
    IN  <<hex[(n % 4) + 1], hex[((n \div 4) % 4) + 1]>>

\* crypto.timingSafeEqual(a, b): throws on buffers of different length
timingSafeEqual(a, b) ==
    IF Len(a) # Len(b) THEN [value |-> FALSE, throws |-> TRUE]
    ELSE [value |-> a = b, throws |-> FALSE]

\* signatureParts[key] after the loop over xSignature.split(","): the value of the
\* last part key=value whose key and value are both non-empty, Null when none
signaturePart(xSignature, key) ==
    LET parts == split(xSignature, ",")
        kv == [i \in 1..Len(parts) |-> split(parts[i], "=")]
        hits == {i \in 1..Len(parts) :
                    Len(kv[i]) >= 2 /\ kv[i][1] = <<key>> /\ kv[i][2] # << >>}
    IN  IF hits = {} THEN Null
        ELSE kv[CHOOSE i \in hits : \A j \in hits : j <= i][2]

\* `id:${dataId};request-id:${xRequestId};ts:${ts};`
Manifest(dataId, xRequestId, ts) ==
    <<"id:">> \o dataId \o <<";request-id:">> \o xRequestId \o <<";ts:">> \o ts \o <<";">>

\* validateWebhookSignature: the boolean it returns, or that it throws
validateWebhookSignature(xSignature, xRequestId, dataId) ==
    LET ts == signaturePart(xSignature, "ts")
        v1 == signaturePart(xSignature, "v1")
    IN  IF MP_WEBHOOK_SECRET = Null THEN [value |-> TRUE, throws |-> FALSE]
        ELSE IF xSignature = Null \/ xRequestId = Null THEN [value |-> FALSE, throws |-> FALSE]
        ELSE IF ts = Null \/ v1 = Null THEN [value |-> FALSE, throws |-> FALSE]
        ELSE timingSafeEqual(v1, hmac(MP_WEBHOOK_SECRET, Manifest(dataId, xRequestId, ts)))

\* supabase.from("payments").update({mp_status}).eq("mp_payment_id", p)
updatePaymentStatus(pays, p, status) ==
    [q \in PaymentIds |->
        IF q = p /\ pays[q] # NoPayment THEN [pays[q] EXCEPT !.mp_status = status]
        ELSE pays[q]]

\* the result handlePaymentWebhook returns when it does not activate
NoActivation == [success |-> FALSE, chatId |-> Null, plan |-> Null]

\* mutant: a payment that is not approved activates as well
handlePaymentWebhookAnyStatus(ss, pays, p, gw, t) ==
    IF MP_ACCESS_TOKEN = Null \/ gw = Null
    THEN [subs |-> ss, payments |-> pays, result |-> NoActivation]
    ELSE LET parts == split(gw[1].external_reference, ":")
             chatId == parseInt(parts[1])
             plan == IF Len(parts) >= 2 THEN parts[2] ELSE Null
         IN  IF chatId = Null \/ chatId = <<0>> \/ plan = Null
             THEN [subs |-> ss, payments |-> pays, result |-> NoActivation]
             ELSE LET act == activateSubscription(ss, chatId[1], plan[1], t)
                  IN  [subs |-> act.subs,
                       payments |-> updatePaymentStatus(pays, p, gw[1].status),
                       result |-> IF act.error THEN NoActivation
                                  ELSE [success |-> TRUE, chatId |-> chatId,
                                        plan |-> <<plan[1]>>]]

\* handlePaymentWebhook(p) at time t, gw being the gateway's answer to
\* GET /v1/payments/p (Null: the request fails): the tables it leaves and the
\* result it returns. Everything it does is inside one try/catch
handlePaymentWebhook(ss, pays, p, gw, t) ==
    IF MP_ACCESS_TOKEN = Null \/ gw = Null
    THEN [subs |-> ss, payments |-> pays, result |-> NoActivation]
    ELSE IF gw[1].status # "approved"
    THEN [subs |-> ss, payments |-> updatePaymentStatus(pays, p, gw[1].status),
          result |-> NoActivation]
    ELSE LET parts == split(gw[1].external_reference, ":")
             chatId == parseInt(parts[1])
             plan == IF Len(parts) >= 2 THEN parts[2] ELSE Null
         IN  IF chatId = Null \/ chatId = <<0>> \/ plan = Null
             THEN [subs |-> ss, payments |-> pays, result |-> NoActivation]
             ELSE LET act == activateSubscription(ss, chatId[1], plan[1], t)
                  IN  [subs |-> act.subs,
                       payments |-> updatePaymentStatus(pays, p, "approved"),
                       result |-> IF act.error THEN NoActivation
                                  ELSE [success |-> TRUE, chatId |-> chatId,
                                        plan |-> <<plan[1]>>]]

\* the answers of the gateway's create endpoint
GatewayResponses == {"ok", "refused", "throws"}

\* mutant: the free tier is charged like any other plan
createPixPaymentAnyPlan(pays, c, plan, p, response) ==
    IF MP_ACCESS_TOKEN = Null
    THEN [payments |-> pays, success |-> FALSE, called |-> FALSE]
    ELSE IF response # "ok"
    THEN [payments |-> pays, success |-> FALSE, called |-> TRUE]
    ELSE [payments |-> [pays EXCEPT ![p] = [chat_id |-> c, plan |-> plan,
                                            mp_status |-> "pending"]],
          success |-> TRUE, called |-> TRUE]

\* createPixPayment(c, plan), the gateway answering with response and, when it
\* accepts, with the new payment's id p in status pending: the payments table it
\* leaves, whether it succeeds (an error string is returned when not), and whether
\* the gateway was called
createPixPayment(pays, c, plan, p, response) ==
    IF MP_ACCESS_TOKEN = Null \/ PLANS_price(plan) = 0
    THEN [payments |-> pays, success |-> FALSE, called |-> FALSE]
    ELSE IF response # "ok"
    THEN [payments |-> pays, success |-> FALSE, called |-> TRUE]
    ELSE [payments |-> [pays EXCEPT ![p] = [chat_id |-> c, plan |-> plan,
                                            mp_status |-> "pending"]],
          success |-> TRUE, called |-> TRUE]

\* the id the gateway gives the next payment it accepts: it numbers them
NextPaymentId(pays) ==
    CHOOSE p \in PaymentIds \cup {0} :
        IF \A q \in PaymentIds : pays[q] # NoPayment THEN p = 0
        ELSE /\ p \in PaymentIds /\ pays[p] = NoPayment
             /\ \A q \in PaymentIds : q < p => pays[q] # NoPayment

\* a charge of plan for chat c is asked for, and the gateway would answer with
\* response
CreatePixPayment(c, plan, response) ==
    \E p \in {NextPaymentId(payments)} :
        /\ response = "ok" => p \in PaymentIds
        /\ \E out \in {createPixPayment(payments, c, plan, p, response)} :
               /\ payments' = out.payments
               /\ cmd' = [op |-> "createPix", chat |-> c, arg |-> <<plan, response, p>>,
                          ret |-> <<[success |-> out.success, called |-> out.called]>>]
        /\ UNCHANGED <<now, subs, ledger, pc, chat, fileId, sub, check, result, reply,
                       submitted, before, expiredNotified, nextId, activatedAt, vision, periodVars, configVars, promptVars>>

\* the x-signature header "ts=<ts>,v1=<v1>"
SignatureHeader(ts, v1) == <<"ts", "=">> \o ts \o <<",", "v1", "=">> \o v1

\* the signature the gateway computes for a notification about payment p
Signed(p) == hmac(MP_WEBHOOK_SECRET, Manifest(<<ToDigit(p)>>, <<"r1">>, <<"t1">>))

\* a digest of the right length that is not the signature
Forged(p) == IF Signed(p) = <<"a", "a">> THEN <<"b", "b">> ELSE <<"a", "a">>

\* the x-signature headers a notification about payment p may carry: the gateway's,
\* none, one without v1, one without ts, a wrong v1 of the digest's length, a
\* shorter and a longer v1
SignatureHeaders(p) ==
    {SignatureHeader(<<"t1">>, Signed(p)), Null, <<"ts", "=", "t1">>,
     <<"v1", "=">> \o Signed(p), SignatureHeader(<<"t1">>, Forged(p)),
     SignatureHeader(<<"t1">>, <<"a">>), SignatureHeader(<<"t1">>, Signed(p) \o <<"a">>)}

\* the POST requests to /webhook/mercadopago: a body that is not JSON (Null), or a
\* notification with its headers
Requests ==
    {[body |-> Null, xSignature |-> Null, xRequestId |-> Null]}
    \cup UNION {{[body |-> <<[action |-> "payment.updated", id |-> p]>>,
                   xSignature |-> h, xRequestId |-> <<"r1">>] :
                     h \in SignatureHeaders(p)} : p \in PaymentIds}
    \cup {[body |-> <<[action |-> a, id |-> 1]>>,
           xSignature |-> SignatureHeader(<<"t1">>, Signed(1)), xRequestId |-> rid] :
             a \in {"payment.created", "merchant_order"}, rid \in {<<"r1">>, Null}}

\* external references no createPixPayment call wrote: missing, without a colon,
\* with a chat id that is no number or 0, with an empty plan, with a chat id that
\* starts with a digit, and with a plan that is no key of PLANS
ForeignReferences ==
    {<< >>, <<"x">>, <<"1">>, <<"x", ":", "pro">>, <<"1", ":">>, <<"0", ":", "pro">>,
     <<"1", "x", ":", "pro">>, <<"2", "x", ":", "basico">>, <<"2", ":", "gold">>}

\* the statuses the gateway reports for a payment
PaymentStatuses == {"pending", "approved", "rejected"}

\* the chat that subscribes before it has a row in subscriptions
Buyer == 2

\* the plans charges are asked for
Offered == {"basico", "ultra"}

\* the answers GET /v1/payments/p can have: the request fails (Null), or the payment
\* in some status with its external reference, which is read for an approved
\* payment only
GatewayAnswers ==
    {Null}
    \cup {<<[status |-> st, external_reference |-> ExternalReference(Buyer, "basico")]>> :
             st \in PaymentStatuses \ {"approved"}}
    \cup {<<[status |-> "approved", external_reference |-> ref]>> :
             ref \in ForeignReferences
                     \cup {ExternalReference(c, plan) : c \in Chats, plan \in Offered}}

\* POST /webhook/mercadopago: the tables it leaves, the status it answers with,
\* whether handlePaymentWebhook was called and with what result, and whether the
\* chat was sent the confirmation
webhookEndpoint(ss, pays, req, gw, t) ==
    LET untouched(status) ==
            [subs |-> ss, payments |-> pays, status |-> status, called |-> FALSE,
             result |-> NoActivation, sent |-> FALSE]
    IN  IF req.body = Null THEN untouched(500)
        ELSE LET data == req.body[1]
                 valid == validateWebhookSignature(req.xSignature, req.xRequestId,
                                                   <<ToDigit(data.id)>>)
             IN  IF valid.throws THEN untouched(500)
                 ELSE IF ~valid.value THEN untouched(401)
                 ELSE IF data.action \notin {"payment.updated", "payment.created"}
                 THEN untouched(200)
                 ELSE LET out == handlePaymentWebhook(ss, pays, data.id, gw, t)
                      IN  [subs |-> out.subs, payments |-> out.payments,
                           status |-> 200, called |-> TRUE, result |-> out.result,
                           sent |-> out.result.success]

\* a notification arrives; gw is what the gateway answers if it is asked
MercadoPagoWebhook(req, gw) ==
    \E out \in {webhookEndpoint(subs, payments, req, gw, now)} :
        /\ subs' = out.subs
        /\ payments' = out.payments
        /\ activatedAt' = [c \in Chats |->
                IF out.result.chatId = <<c>> THEN <<now, "webhook">> ELSE activatedAt[c]]
        /\ expiredNotified' = [c \in Chats |->
                expiredNotified[c] /\ out.result.chatId # <<c>>]
        /\ cmd' = [op |-> "webhook", chat |-> 0,
                   arg |-> <<req, IF out.called THEN gw ELSE Null>>,
                   ret |-> <<[status |-> out.status, called |-> out.called,
                              result |-> out.result, sent |-> out.sent]>>]
        /\ UNCHANGED <<now, ledger, pc, chat, fileId, sub, check, result, reply,
                       submitted, before, nextId, vision, configVars, promptVars>>
        /\ period_start' = [c \in Chats |->
                IF out.result.chatId = <<c>> THEN <<now>> ELSE period_start[c]]

\* the requests to /webhook/mercadopago: the gateway is asked about the payment
\* only by a request that gets as far as handlePaymentWebhook
PaymentNotification ==
    \E req \in Requests :
        IF webhookEndpoint(subs, payments, req, Null, now).called
        THEN \E gw \in GatewayAnswers : MercadoPagoWebhook(req, gw)
        ELSE MercadoPagoWebhook(req, Null)

\* the gateway's notification that payment p, of plan by chat c, is approved
ApprovedPayment(p, c, plan) ==
    MercadoPagoWebhook(
        [body |-> <<[action |-> "payment.updated", id |-> p]>>,
         xSignature |-> SignatureHeader(<<"t1">>, Signed(p)), xRequestId |-> <<"r1">>],
        <<[status |-> "approved", external_reference |-> ExternalReference(c, plan)]>>)

\* /grant <target> sent by sender: ignored unless the sender passes the admin test
Grant(sender, target) ==
    /\ ~(ADMIN_CHAT_ID # Null /\ sender # ADMIN_CHAT_ID[1])
    /\ subs' = [subs EXCEPT ![target] = [plan |-> "ultra", transactions_used |-> 0,
                                         period_end |-> <<GRANT_PERIOD_END>>]]
    /\ activatedAt' = [activatedAt EXCEPT ![target] = <<now, "grant">>]
    /\ period_start' = [period_start EXCEPT ![target] = <<now>>]
    /\ expiredNotified' = [expiredNotified EXCEPT ![target] = FALSE]
    /\ cmd' = [op |-> "grant", chat |-> target, arg |-> <<sender>>, ret |-> <<TRUE>>]
    /\ UNCHANGED <<now, ledger, pc, chat, fileId, sub, check, result, reply,
                   submitted, before, nextId, payments, vision, configVars, promptVars>>

\* /grant from a sender that fails the admin test: silently ignored
GrantIgnored(sender, target) ==
    /\ ADMIN_CHAT_ID # Null /\ sender # ADMIN_CHAT_ID[1]
    /\ cmd' = [op |-> "grant", chat |-> target, arg |-> <<sender>>, ret |-> <<FALSE>>]
    /\ UNCHANGED <<now, subs, ledger, pc, chat, fileId, sub, check, result, reply,
                   submitted, before, expiredNotified, nextId, activatedAt, serviceVars>>

\* the cron job of the 1st of the month
ResetMonthlyUsage ==
    \E out \in {resetMonthlyUsage(subs, period_start, now)} :
        /\ subs' = out.subs
        /\ period_start' = out.period_start
        /\ cmd' = [op |-> "reset", chat |-> 0, arg |-> Null, ret |-> <<out.count>>]
        /\ UNCHANGED <<now, ledger, pc, chat, fileId, sub, check, result, reply,
                       submitted, before, expiredNotified, nextId, activatedAt,
                       payments, vision, configVars, promptVars>>

\* the plan operations on the row of chat c
PlanCommand(c) ==
    \/ \E plan \in PaidPlans : ApprovedPayment(1, c, plan)
    \/ \E sender \in Chats : Grant(sender, c)
    \/ \E sender \in Chats : GrantIgnored(sender, c)
    \/ ResetMonthlyUsage

(* ------------------ the bot: receipts and commands --------------------- *)

\* a database in use by two chats: each has a row of yesterday and rows of today
LedgerTwoChats ==
    <<Row(1, 1, 10, 1, -1), Row(2, 2, 10, 1, -1), Row(3, 1, 10, 2, 0),
      Row(4, 2, 10, 2, 0), Row(5, 1, 10, 3, 0)>>

\* chat 1 is on the free plan, or on basico since the start of yesterday with each
\* of its rows counted; chat 2 is on the free plan
SubsTwoChats ==
    {[c \in Chats |-> IF c = 1 THEN s ELSE DefaultSub] :
        s \in {DefaultSub,
               [plan |-> "basico", transactions_used |-> 3,
                period_end |-> <<AddMonth(0 - TicksPerDay)>>]}}

InitBot ==
    /\ now = 0
    /\ subs \in SubsTwoChats
    /\ ledger = LedgerTwoChats
    /\ InitRuns
    /\ ADMIN_CHAT_ID = DeployedAdmin
    /\ payments = NoPayments

\* the chat whose updates are followed; the other chat's rows stand by
Acting == 1

\* a receipt of chat c arrives
SubmitBy(r, c) ==
    \E f \in KnownFiles(c) \cup {FreshFile(c)} : Begin(r, c, f) /\ UNCHANGED submitted

\* updates are handled one at a time: a command is taken up when no receipt is in
\* the pipeline; here the ledger commands next to the receipts
NextLedger ==
    \/ SubmitBy(1, Acting)
    \/ Pipeline(1)
    \/ ActiveRuns = {} /\ LedgerCommand(Acting)
    \/ Tick

SpecLedger == InitBot /\ [][NextLedger]_vars

\* the plan operations on the chat's row next to the receipts of every chat
NextPlans ==
    \/ Submit(1)
    \/ Pipeline(1)
    \/ ActiveRuns = {} /\ PlanCommand(Acting)
    \/ Tick

SpecPlans == Init /\ [][NextPlans]_vars

\* a chat subscribes before its first receipt: chat 1 is on the free plan, the
\* buyer has no row yet
InitPurchase ==
    /\ now = 0
    /\ subs = [c \in Chats |-> IF c = Buyer THEN NoSub ELSE DefaultSub]
    /\ ledger = StoredLedger
    /\ InitRuns
    /\ ADMIN_CHAT_ID = DeployedAdmin
    /\ payments = NoPayments

\* the buyer's receipts next to the plan operations on its row
NextPurchase ==
    \/ SubmitBy(1, Buyer)
    \/ Pipeline(1)
    \/ ActiveRuns = {} /\ PlanCommand(Buyer)
    \/ Tick

SpecPurchase == InitPurchase /\ [][NextPurchase]_vars

\* the deployments: ADMIN_CHAT_ID is set to chat 1, or it is not set
InitGrant ==
    /\ now = 0
    /\ subs = [c \in Chats |-> IF c = Buyer THEN NoSub ELSE DefaultSub]
    /\ ledger = StoredLedger
    /\ InitRuns
    /\ ADMIN_CHAT_ID \in {Null, DeployedAdmin}
    /\ payments = NoPayments

\* /grant from any chat for any chat, next to the receipts of chat 1
NextGrant ==
    \/ SubmitBy(1, Acting)
    \/ Pipeline(1)
    \/ ActiveRuns = {} /\ \E sender \in Chats, target \in Chats : Grant(sender, target)
    \/ ActiveRuns = {} /\ \E sender \in Chats, target \in Chats : GrantIgnored(sender, target)
    \/ Tick

SpecGrant == InitGrant /\ [][NextGrant]_vars

\* the bot is up: no entry, no prompt, no handler running
InitPrompt ==
    /\ now = 0
    /\ subs = [c \in Chats |-> IF c = Acting THEN DefaultSub ELSE NoSub]
    /\ ledger = StoredLedger
    /\ InitRuns
    /\ ADMIN_CHAT_ID = DeployedAdmin
    /\ payments = NoPayments

\* the messages and button presses of one chat, handled as they come in, next to
\* the cleanup timer
NextPrompt ==
    \/ \E h \in Handlers, text \in MessageTexts : ReceiveMessage(h, Acting, text)
    \/ \E h \in Handlers, m \in MessageIds, action \in CallbackActions :
           ReceiveCallback(h, Acting, m, action)
    \/ \E h \in Handlers : HandlerStep(h, Acting)
    \/ \E ok \in BOOLEAN : ClearReturns(Timer, Acting, ok)
    \/ CleanupTick(Acting)

SpecPrompt == InitPrompt /\ [][NextPrompt]_vars

\* every call a handler awaits returns, and the timer keeps firing
SpecPromptLive ==
    /\ SpecPrompt
    /\ \A h \in Handlers : WF_vars(HandlerStep(h, Acting))
    /\ WF_vars(\E ok \in BOOLEAN : ClearReturns(Timer, Acting, ok))
    /\ WF_vars(CleanupTick(Acting))

\* the payment flow: chat 1 has a row, on the free plan or on basico since the
\* start of yesterday, the buyer has none yet and has asked for a charge of basico,
\* which is pending
InitPayments ==
    /\ now = 0
    /\ subs \in {[c \in Chats |-> IF c = Buyer THEN NoSub ELSE s] :
                    s \in {DefaultSub,
                           [plan |-> "basico", transactions_used |-> 3,
                            period_end |-> <<AddMonth(0 - TicksPerDay)>>]}}
    /\ ledger = StoredLedger
    /\ InitRuns
    /\ ADMIN_CHAT_ID = DeployedAdmin
    /\ payments = [p \in PaymentIds |->
            IF p = 1 THEN [chat_id |-> Buyer, plan |-> "basico", mp_status |-> "pending"]
            ELSE NoPayment]

\* the gateway's notifications come in
NextPayments ==
    \/ PaymentNotification
    \/ Tick

SpecPayments == InitPayments /\ [][NextPayments]_vars

\* a chat that has used the bot subscribes or renews: chat 1 has its row, on the
\* free plan or on basico since the start of yesterday, and has asked for a charge
\* of basico, which is pending
InitRenewal ==
    /\ now = 0
    /\ subs \in {[c \in Chats |-> IF c = Buyer THEN NoSub ELSE s] :
                    s \in {DefaultSub,
                           [plan |-> "basico", transactions_used |-> 3,
                            period_end |-> <<AddMonth(0 - TicksPerDay)>>]}}
    /\ ledger = StoredLedger
    /\ InitRuns
    /\ ADMIN_CHAT_ID = DeployedAdmin
    /\ payments = [p \in PaymentIds |->
            IF p = 1 THEN [chat_id |-> Acting, plan |-> "basico", mp_status |-> "pending"]
            ELSE NoPayment]

SpecRenewal == InitRenewal /\ [][NextPayments]_vars

\* charges are asked for
NextCheckout ==
    \/ \E c \in Chats, plan \in Offered \cup {"free"}, response \in GatewayResponses :
           CreatePixPayment(c, plan, response)
    \/ Tick

SpecCheckout == InitPayments /\ [][NextCheckout]_vars

\* two receipts of the chat may be in the pipeline at the same time
NextOverlap ==
    \/ \E r \in Runs : SubmitBy(r, Acting)
    \/ \E r \in Runs : Pipeline(r)
    \/ Tick

SpecOverlap == InitBot /\ [][NextOverlap]_vars

(* ------------- two receipts of one chat handled side by side ----------- *)

\* a database in use: chat 1 is one receipt below the limit that applies to it,
\* on the free plan by today's rows, on basico by its stored counter
InitRace ==
    /\ now = 0
    /\ subs \in {[c \in Chats |-> IF c = Acting THEN s ELSE NoSub] :
                    s \in {DefaultSub,
                           [plan |-> "basico", transactions_used |-> BASICO_LIMIT - 1,
                            period_end |-> <<1>>]}}
    /\ ledger = StoredLedger
    /\ InitRuns
    /\ ADMIN_CHAT_ID = DeployedAdmin
    /\ payments = NoPayments

\* each update is handled by its own invocation of the handler, and nothing keeps
\* a second receipt of the chat from starting while the first one is awaited
SpecRace == InitRace /\ [][NextOverlap]_vars

\* a paid plan on the last tick of its grace period: chat 1 is on a capped tier
\* whose period ended GRACE_PERIOD_DAYS ago, the next tick is past grace
InitLapse ==
    /\ now = 0
    /\ subs \in {[c \in Chats |-> IF c = Acting THEN s ELSE NoSub] :
                    s \in {t \in StoredSubs : t.period_end = <<0 - GraceTicks>>}}
    /\ ledger = StoredLedger
    /\ InitRuns
    /\ ADMIN_CHAT_ID = DeployedAdmin
    /\ payments = NoPayments

\* two receipts of the chat may be in the pipeline while its grace period runs out
SpecLapse == InitLapse /\ [][NextOverlap]_vars

\* the first receipts of the buyer, two of which may be in the pipeline at the same
\* time, with the two round trips of getOrCreateSubscription as steps of their own
NextFirstAccess ==
    \/ \E r \in Runs : SubmitBy(r, Buyer)
    \/ \E r \in Runs : GetSubscription(r)
    \/ \E r \in Runs : InsertSubscription(r)
    \/ \E r \in Runs : pc[r] # "canProcess" /\ Pipeline(r)
    \/ Tick

SpecFirstAccess == InitPurchase /\ [][NextFirstAccess]_vars

\* receipts whose extraction is followed attempt by attempt
NextRetry ==
    \/ SubmitBy(1, Acting)
    \/ pc[1] # "extract" /\ Pipeline(1)
    \/ vision[1].model \notin {"haiku", "sonnet"} /\ DownloadFails(1)
    \/ \E isPdf \in BOOLEAN : ExtractStart(1, isPdf)
    \/ \E resp \in ApiResponses : VisionAttempt(1, resp)
    \/ Tick

SpecRetry == InitBot /\ [][NextRetry]_vars

\* receipts with any amount the model may answer, and /editar with any text
NextAmounts ==
    \/ SubmitBy(1, Acting)
    \/ Pipeline(1)
    \/ ExtractAnyAmount(1)
    \/ ActiveRuns = {} /\ \E text \in TypedAmounts : Editar(Acting, text)
    \/ Tick

SpecAmounts == InitBot /\ [][NextAmounts]_vars

\* receipts of the chat while the store may fail inside canProcess
NextStoreFailures ==
    \/ SubmitBy(1, Acting)
    \/ Pipeline(1)
    \/ CanProcessLoadFails(1)
    \/ CanProcessDecideStoreFails(1)
    \/ Tick

SpecStoreFailures == Init /\ [][NextStoreFailures]_vars

(* ------------------------------ claims --------------------------------- *)

\* run r takes a step
StepOf(r) == pc'[r] # pc[r]

\* run r's canProcess call finishes in this step: sub[r] is the row it loaded
Decides(r) == pc[r] = "decide" /\ pc'[r] # "decide"

\* run r holds the decision of its canProcess call
HasDecision(r) == pc[r] \in {"isDuplicate", "extract", "save", "incrementUsage", "increment", "done"}

\* the number of the chat's ledger rows created since local midnight of day t
RowsSinceMidnight(c, t) ==
    Cardinality({i \in 1..Len(ledger) :
        ledger[i].chat_id = c /\ ledger[i].created_at >= t - (t % TicksPerDay)})

\* the cap of a capped paid tier
CapOf(plan) == IF plan = "basico" THEN BASICO_LIMIT ELSE PRO_LIMIT

\* the row is expired past grace at time t
PastGrace(s, t) == s.period_end # Null /\ t > s.period_end[1] + GRACE_PERIOD_DAYS * TicksPerDay

\* the row is in its grace period at time t
InGrace(s, t) ==
    /\ s.period_end # Null
    /\ s.period_end[1] < t
    /\ t <= s.period_end[1] + GRACE_PERIOD_DAYS * TicksPerDay

\* C1: for a chat whose stored plan is free, canProcess returns allowed = true iff
\* the number of the chat's ledger rows created since local midnight is below 5;
\* used is that live count (not the stored counter) and limit is 5.
C1_FreeDailyGate ==
    [][\A r \in Runs : Decides(r) /\ sub[r].plan = "free" =>
        LET n == RowsSinceMidnight(chat[r], now)
        IN  /\ check'[r].allowed = (n < 5)
            /\ check'[r].used = n
            /\ check'[r].limit = <<5>>
            /\ check'[r].plan = "free"]_vars

\* C1 witness: a free-plan call was refused at 5 rows of today while the stored
\* counter holds another value
C1_Witness ==
    \E r \in Runs :
        /\ HasDecision(r)
        /\ check[r].plan = "free" /\ ~check[r].expired
        /\ ~check[r].allowed /\ check[r].used = 5
        /\ subs[chat[r]].transactions_used # check[r].used

\* C2: on one free-tier day of serially processed receipts with distinct file ids,
\* each extracting an amount, the gate of the N-th submission allows iff N <= 5 and
\* reports used = min(N-1, 5); the chat never has more than 5 rows of that day.
C2_FreeDaySequence ==
    /\ \A r \in Runs : HasDecision(r) =>
          LET N == submitted[chat[r]]
          IN  /\ check[r].allowed = (N <= 5)
              /\ check[r].used = (IF N - 1 < 5 THEN N - 1 ELSE 5)
    /\ \A c \in Chats : RowsSinceMidnight(c, now) <= 5

\* C2 witness: the 6th submission of the day was refused with used = 5
C2_Witness ==
    \E r \in Runs :
        /\ pc[r] = "done" /\ submitted[chat[r]] = 6
        /\ ~check[r].allowed /\ check[r].used = 5 /\ reply[r] = "limit"

\* C3: for a capped paid tier that is not expired past grace, canProcess returns
\* allowed = true iff the stored usage counter is below the tier's cap, with
\* used = the stored counter and limit = the cap, before period end and in grace.
C3_CappedPaidGate ==
    [][\A r \in Runs :
        Decides(r) /\ sub[r].plan \in {"basico", "pro"} /\ ~PastGrace(sub[r], now) =>
            /\ check'[r].allowed = (sub[r].transactions_used < CapOf(sub[r].plan))
            /\ check'[r].used = sub[r].transactions_used
            /\ check'[r].limit = <<CapOf(sub[r].plan)>>
            /\ check'[r].plan = sub[r].plan]_vars

\* C3 witness: a basico call in its grace period was refused at the cap, and the
\* stored row is still the paid one
C3_Witness ==
    \E r \in Runs :
        /\ HasDecision(r)
        /\ check[r].plan = "basico" /\ check[r].inGracePeriod
        /\ ~check[r].allowed /\ check[r].used = BASICO_LIMIT
        /\ subs[chat[r]].plan = "basico"

\* C4 as claimed: for every chat whose stored plan is ultra, canProcess returns
\* allowed = true and limit = null whatever the stored usage counter.
C4_UltraAlwaysAllowed ==
    [][\A r \in Runs : Decides(r) /\ sub[r].plan = "ultra" =>
        check'[r].allowed /\ check'[r].limit = Null]_vars

\* C4 amended: for every chat whose stored plan is ultra and which is not expired
\* past grace, canProcess returns allowed = true and limit = null whatever the
\* stored usage counter.
C4_UltraUnexpiredAllowed ==
    [][\A r \in Runs :
        Decides(r) /\ sub[r].plan = "ultra" /\ ~PastGrace(sub[r], now) =>
            /\ check'[r].allowed
            /\ check'[r].limit = Null
            /\ check'[r].plan = "ultra"]_vars

\* C4 witness: an ultra call was allowed with a stored counter at the pro cap
C4_Witness ==
    \E r \in Runs :
        /\ HasDecision(r)
        /\ check[r].plan = "ultra" /\ check[r].allowed /\ check[r].limit = Null
        /\ check[r].used >= PRO_LIMIT

\* C5: when canProcess is called for a paid-tier row with now later than period
\* end + 3 days, the row is rewritten to plan free, counter 0, period end null, and
\* the same call returns plan free, expired, limit 5, used = today's live ledger
\* count, allowed = (count < 5), with a notice.
C5_ExpiryDowngrade ==
    [][\A r \in Runs :
        Decides(r) /\ sub[r].plan \in {"basico", "pro", "ultra"} /\ PastGrace(sub[r], now) =>
            LET n == RowsSinceMidnight(chat[r], now)
            IN  /\ subs'[chat[r]].plan = "free"
                /\ subs'[chat[r]].transactions_used = 0
                /\ subs'[chat[r]].period_end = Null
                /\ check'[r].plan = "free"
                /\ check'[r].expired
                /\ check'[r].limit = <<5>>
                /\ check'[r].used = n
                /\ check'[r].allowed = (n < 5)
                /\ check'[r].message # Null]_vars

\* C5 witness: a call returned expired and refused at 5 rows of today, and the
\* stored row is free with counter 0
C5_Witness ==
    \E r \in Runs :
        /\ HasDecision(r)
        /\ check[r].expired /\ ~check[r].allowed /\ check[r].used = 5
        /\ subs[chat[r]] = [plan |-> "free", transactions_used |-> 0, period_end |-> Null]

\* C6: after a canProcess call returned expired = true for a chat, every following
\* call for that chat returns plan free without the expired flag and writes no
\* further downgrade.
C6_ExpiredOnce ==
    [][\A r \in Runs : Decides(r) /\ expiredNotified[chat[r]] =>
        /\ check'[r].plan = "free"
        /\ ~check'[r].expired
        /\ subs' = subs]_vars

\* C6 witness: a call made after the expired notice holds a free decision
C6_Witness ==
    \E r \in Runs :
        /\ HasDecision(r)
        /\ expiredNotified[chat[r]]
        /\ check[r].plan = "free" /\ ~check[r].expired

\* C7: when canProcess is called for a paid-tier row with period end < now <=
\* period end + 3 days, the row is not modified, the decision keeps the paid plan
\* with inGracePeriod, daysUntilExpiry = ceiling((period end - now) in days) <= 0,
\* the notice reports 3 + daysUntilExpiry days, and allowed follows the tier's rule.
C7_GracePeriod ==
    [][\A r \in Runs :
        Decides(r) /\ sub[r].plan \in {"basico", "pro", "ultra"} /\ InGrace(sub[r], now) =>
            /\ subs' = subs
            /\ check'[r].plan = sub[r].plan
            /\ check'[r].inGracePeriod
            /\ ~check'[r].expired
            /\ check'[r].daysUntilExpiry # Null
            /\ LET d == check'[r].daysUntilExpiry[1]
                   diff == sub[r].period_end[1] - now
               IN  /\ d * TicksPerDay >= diff
                   /\ (d - 1) * TicksPerDay < diff
                   /\ d <= 0
                   /\ check'[r].message = <<"grace", 3 + d>>
            /\ check'[r].allowed =
                  (sub[r].plan = "ultra" \/ sub[r].transactions_used < CapOf(sub[r].plan))]_vars

\* C7 witness: period end one day ago: daysUntilExpiry = -1 and 2 days remain
C7_Witness ==
    \E r \in Runs :
        /\ HasDecision(r)
        /\ check[r].inGracePeriod
        /\ subs[chat[r]].period_end = <<now - TicksPerDay>>
        /\ check[r].daysUntilExpiry = <<-1>>
        /\ check[r].message = <<"grace", 2>>

\* the transactions_used column of the chat's row (the column default for no row)
UsedOf(ss, c) == ss[c].transactions_used

\* C8 as claimed: the duplicate check comes before the usage gate: for an inbound
\* file whose (chat, file id) is already in the ledger no step of canProcess is
\* taken, so a duplicate never triggers the downgrade nor a limit-reached answer.
C8_DuplicateBeforeGate ==
    [][\A r \in Runs :
        StepOf(r) /\ pc[r] \in {"canProcess", "decide"} =>
            ~isDuplicate(ledger, chat[r], fileId[r])]_vars

\* C9 as claimed: a receipt whose extraction yields no amount leaves the ledger and
\* the subscription counter the same after the pipeline run as before, and the
\* user gets a failure report.
C9_NoAmountSameAsBefore ==
    \A r \in Runs :
        pc[r] = "done" /\ result[r] \in {AmountNull, AmountUndefined} =>
            /\ ledger = before[r].ledger
            /\ UsedOf(subs, chat[r]) = before[r].used
            /\ reply[r] \in {"no_amount", "error"}

\* C9 amended: a receipt whose extraction yields no amount never results in a
\* ledger row or a usage increment: the ledger is the same after the pipeline run
\* as before, the subscription counter is the same as before or was reset to 0 by
\* the expiry downgrade of the run's gate check, and the user gets a failure report.
C9_NoAmountNoRowNoIncrement ==
    \A r \in Runs :
        pc[r] = "done" /\ result[r] \in {AmountNull, AmountUndefined} =>
            /\ ledger = before[r].ledger
            /\ \/ UsedOf(subs, chat[r]) = before[r].used
               \/ check[r].expired /\ UsedOf(subs, chat[r]) = 0
            /\ reply[r] \in {"no_amount", "error"}

\* C9 witness: a paid run whose response lacked the amount field ended in the
\* error report
C9_Witness ==
    \E r \in Runs :
        /\ pc[r] = "done" /\ result[r] = AmountUndefined /\ reply[r] = "error"
        /\ subs[chat[r]].plan \in {"basico", "pro", "ultra"}

\* C10: the usage increment happens only after saveTransaction returned: a failed
\* append leaves the stored counter unchanged, and after a successful append the
\* counter is raised by exactly 1 on a paid plan and left unchanged on free.
C10_IncrementAfterAppend ==
    [][\A r \in Runs : StepOf(r) /\ pc[r] # "idle" =>
        LET c == chat[r]
        IN  /\ UsedOf(subs', c) > UsedOf(subs, c) =>
                  /\ pc[r] = "increment"
                  /\ ledger = Append(before[r].ledger, ledger[Len(ledger)])
                  /\ ledger[Len(ledger)].chat_id = c
                  /\ ledger[Len(ledger)].telegram_file_id = fileId[r]
            /\ pc[r] = "save" /\ pc'[r] = "done" => subs' = subs /\ ledger' = ledger
            /\ pc[r] = "increment" =>
                  UsedOf(subs', c) = UsedOf(subs, c)
                      + (IF subs[c].plan \in {"basico", "pro", "ultra"} THEN 1 ELSE 0)]_vars

\* C10 witness: a paid run appended its row and the counter stands one higher
C10_Witness ==
    \E r \in Runs :
        /\ pc[r] = "done" /\ reply[r] = "total"
        /\ subs[chat[r]].plan \in {"basico", "pro", "ultra"}
        /\ UsedOf(subs, chat[r]) = before[r].used + 1
        /\ Len(ledger) = Len(before[r].ledger) + 1

\* the number of the chat's ledger rows, of any day
RowsOf(c) == Cardinality({i \in 1..Len(ledger) : ledger[i].chat_id = c})

\* C11 as claimed: in every reachable state, for every chat on a paid tier the
\* stored usage counter is at most the number of ledger rows of that chat.
C11_UsageAtMostLedger ==
    \A c \in Chats : subs[c].plan \in PaidPlans => subs[c].transactions_used <= RowsOf(c)

\* the file ids in use
FileIds == 0..(MaxRows + 1)

\* the ids of the ledger rows of (c, f)
IdsOf(led, c, f) ==
    {led[i].id : i \in {j \in 1..Len(led) : led[j].chat_id = c /\ led[j].telegram_file_id = f}}

\* C12: isDuplicate(chat, f) is true right after saveTransaction stored a row with
\* that (chat, f), stays true in every later state while no row of the pair is
\* deleted, whatever the calendar day, and is false for a pair that has no row.
C12_IsDuplicateUntilDeleted ==
    [][/\ \A r \in Runs : pc[r] = "save" /\ pc'[r] = "incrementUsage" =>
              isDuplicate(ledger, chat[r], fileId[r])'
       /\ \A c \in Chats, f \in FileIds :
              /\ isDuplicate(ledger, c, f) /\ IdsOf(ledger, c, f) \subseteq IdsOf(ledger', c, f)
                    => isDuplicate(ledger, c, f)'
              /\ IdsOf(ledger', c, f) = {} => ~isDuplicate(ledger, c, f)']_vars

\* C12 witness: a row stored by a pipeline run on an earlier day is still reported
\* as a duplicate, and a pair whose row was deleted is not
C12_Witness ==
    /\ \E i \in 1..Len(ledger) :
          /\ ledger[i].id > Len(LedgerTwoChats)
          /\ ledger[i].created_at < getStartOfTodayISO(now)
          /\ isDuplicate(ledger, ledger[i].chat_id, ledger[i].telegram_file_id)
    /\ \E j \in 1..Len(LedgerTwoChats) :
          /\ IdsOf(ledger, LedgerTwoChats[j].chat_id, LedgerTwoChats[j].telegram_file_id) = {}
          /\ ~isDuplicate(ledger, LedgerTwoChats[j].chat_id, LedgerTwoChats[j].telegram_file_id)

\* C13 as claimed: in every reachable state no two ledger rows share the same
\* (chat id, source-file id), also when the same file is submitted twice to the
\* same chat and the two pipeline runs overlap.
C13_NoTwoRowsSameFile ==
    \A i \in 1..Len(ledger), j \in 1..Len(ledger) :
        i # j => ~(/\ ledger[i].chat_id = ledger[j].chat_id
                   /\ ledger[i].telegram_file_id = ledger[j].telegram_file_id)

\* a command of the kind op is handled in this step
Handles(op) == cmd'.op = op /\ (cmd' # cmd \/ ledger' # ledger \/ subs' # subs)

\* the positions in the ledger of the chat's rows created since local midnight
TodayPositions(c) ==
    {i \in 1..Len(ledger) :
        ledger[i].chat_id = c /\ ledger[i].created_at >= now - (now % TicksPerDay)}

\* the ledger without the row at position i
WithoutPosition(led, i) == SubSeq(led, 1, i - 1) \o SubSeq(led, i + 1, Len(led))

\* C14: deleteTransactionByIndex(chat, k) with 1 <= k <= length of today's list
\* removes exactly the k-th row of today's list in ascending creation order and
\* returns its prior contents; for k <= 0 or k > length no row is removed and the
\* result is null.
C14_DeleteByPosition ==
    [][Handles("delete") /\ cmd'.arg # Null =>
        LET k == cmd'.arg[1]
            today == TodayPositions(cmd'.chat)
        IN  IF 1 <= k /\ k <= Cardinality(today)
            THEN \E i \in today :
                    /\ Cardinality({j \in today : j < i}) = k - 1
                    /\ ledger' = WithoutPosition(ledger, i)
                    /\ cmd'.ret = <<ledger[i]>>
            ELSE ledger' = ledger /\ cmd'.ret = Null]_vars

\* C14 witness: position 2 of a list of three was deleted: the row that was second
\* is returned, the first and the third are still there
C14_Witness ==
    /\ cmd.op = "delete" /\ cmd.arg = <<2>> /\ cmd.ret # Null
    /\ Cardinality(TodayPositions(cmd.chat)) = 2
    /\ \E i \in TodayPositions(cmd.chat) : ledger[i].id < cmd.ret[1].id
    /\ \E i \in TodayPositions(cmd.chat) : ledger[i].id > cmd.ret[1].id

\* C15: deleteTransactionByIndex(chat) with no position removes the same row, and
\* leaves the same ledger, as deleteTransactionByIndex(chat, length) where length
\* is the size of today's list; on an empty list both return not found.
C15_DeleteDefaultIsLast ==
    [][Handles("delete") /\ cmd'.arg = Null =>
        LET c == cmd'.chat
            withLength == deleteTransactionByIndex(ledger, c,
                              <<Cardinality(TodayPositions(c))>>, now)
        IN  /\ ledger' = withLength.ledger
            /\ cmd'.ret = withLength.ret
            /\ TodayPositions(c) = {} => cmd'.ret = Null /\ ledger' = ledger]_vars

\* C15 witness: a delete without a position removed the most recent of several
\* rows of today
C15_Witness ==
    /\ cmd.op = "delete" /\ cmd.arg = Null /\ cmd.ret # Null
    /\ TodayPositions(cmd.chat) # {}
    /\ \A i \in TodayPositions(cmd.chat) : ledger[i].id < cmd.ret[1].id

\* C16: updateLastTransactionAmount(chat, a) overwrites only the amount of the
\* chronologically last of the chat's rows created today and returns the updated
\* row; every other field of that row and every other row is unchanged; when the
\* chat has no row today it returns null and changes nothing.
C16_UpdateLastAmountOnly ==
    [][Handles("update") =>
        LET c == cmd'.chat
            a == cmd'.arg[1]
            today == TodayPositions(c)
        IN  IF today = {}
            THEN ledger' = ledger /\ cmd'.ret = Null
            ELSE LET last == CHOOSE i \in today : \A j \in today : j <= i
                 IN  /\ ledger' = [ledger EXCEPT ![last].amount = a]
                     /\ cmd'.ret = <<[ledger[last] EXCEPT !.amount = a]>>]_vars

\* C16 witness: the last row of today carries the new amount, an earlier row of
\* today still has its own
C16_Witness ==
    /\ cmd.op = "update" /\ cmd.ret # Null
    /\ \E i \in TodayPositions(cmd.chat) :
          /\ ledger[i] = cmd.ret[1] /\ ledger[i].amount \in EditAmounts
          /\ \A j \in TodayPositions(cmd.chat) : j <= i
          /\ \E j \in TodayPositions(cmd.chat) : j < i /\ ledger[j].amount \notin EditAmounts

\* C17: clearTodayTransactions(chat) deletes all of the chat's rows created today
\* and returns the number of rows it removed; called again with no append in
\* between it returns 0; after it getTodayStats(chat) reports total 0 and count 0.
C17_ClearToday ==
    [][Handles("clear") =>
        LET c == cmd'.chat
            today == TodayPositions(c)
        IN  /\ Len(ledger') = Len(ledger) - Cardinality(today)
            /\ {ledger'[i] : i \in 1..Len(ledger')}
                  = {ledger[i] : i \in (1..Len(ledger)) \ today}
            /\ cmd'.ret = <<Cardinality(today)>>
            /\ (cmd.op = "clear" /\ cmd.chat = c) => cmd'.ret = <<0>>
            /\ getTodayStats(ledger', c, now) = [total |-> 0, count |-> 0]]_vars

\* C17 witness: a clear removed several rows of today; the chat has none of today
\* left and still has its row of an earlier day
C17_Witness ==
    /\ cmd.op = "clear" /\ cmd.ret # Null /\ cmd.ret[1] >= 2
    /\ TodayPositions(cmd.chat) = {}
    /\ RowsOf(cmd.chat) > 0
    /\ getTodayStats(ledger, cmd.chat, now).count = 0

\* C18: delete-by-position, update-last-amount and clear-today, called for chat c,
\* change only ledger rows of chat c created on or after local midnight of the call
\* day: rows of other chats and rows of earlier days are never modified or deleted,
\* no row is added, and no subscription row is changed.
C18_DayAndChatScoped ==
    [][Handles("delete") \/ Handles("update") \/ Handles("clear") =>
        LET c == cmd'.chat
        IN  /\ subs' = subs
            /\ \A i \in (1..Len(ledger)) \ TodayPositions(c) :
                  \E j \in 1..Len(ledger') : ledger'[j] = ledger[i]
            /\ \A j \in 1..Len(ledger') :
                  \E i \in 1..Len(ledger) : ledger[i].id = ledger'[j].id]_vars

\* C18 witness: after a command that changed the ledger of a chat, that chat's row
\* of the day before and the other chat's rows are as they were stored
C18_Witness ==
    /\ \/ cmd.op \in {"delete", "update"} /\ cmd.ret # Null
       \/ cmd.op = "clear" /\ cmd.ret[1] > 0
    /\ now < TicksPerDay
    /\ \A i \in 1..Len(LedgerTwoChats) :
          (LedgerTwoChats[i].chat_id # cmd.chat \/ LedgerTwoChats[i].created_at < 0)
              => \E j \in 1..Len(ledger) : ledger[j] = LedgerTwoChats[i]
    /\ \E i \in 1..Len(LedgerTwoChats) :
          \A j \in 1..Len(ledger) : ledger[j] # LedgerTwoChats[i]

C20_PeriodEndOneMonth ==
    \A c \in Chats : subs[c].plan \in PaidPlans =>
        /\ subs[c].period_end # Null
        /\ activatedAt[c] # Null
        /\ subs[c].period_end[1] = AddMonth(activatedAt[c][1])

\* C20 amended: in every reachable state every subscription row on a paid tier has
\* a non-null period end: for a row activated by the payment webhook the activation
\* instant moved on by one calendar month (setMonth(getMonth() + 1)), for a row
\* written by /grant the fixed instant 2099-12-31T23:59:59Z on plan ultra; usage
\* increments and monthly resets leave it as it is.
C20_PeriodEndByActivation ==
    \A c \in Chats : subs[c].plan \in PaidPlans =>
        /\ subs[c].period_end # Null
        /\ activatedAt[c] # Null
        /\ IF activatedAt[c][2] = "grant"
           THEN subs[c].plan = "ultra" /\ subs[c].period_end = <<GRANT_PERIOD_END>>
           ELSE subs[c].period_end[1] = AddMonth(activatedAt[c][1])

\* C20 witness: a row activated by the webhook on 31 January has counted a receipt
\* and ends on 3 March
C20_Witness ==
    \E c \in Chats :
        /\ subs[c].plan \in PaidPlans
        /\ activatedAt[c] # Null /\ activatedAt[c][2] = "webhook"
        /\ activatedAt[c][1] >= 0 /\ activatedAt[c][1] < TicksPerDay
        /\ subs[c].transactions_used > 0
        /\ subs[c].period_end = <<activatedAt[c][1] + 31 * TicksPerDay>>

\* a request to /webhook/mercadopago is answered in this step; cmd' holds the
\* request, the gateway's answer and the outcome
Notified == cmd'.op = "webhook" /\ (cmd' # cmd \/ subs' # subs \/ payments' # payments)

\* handlePaymentWebhook runs in this step and the gateway reports the payment
NotifiedPayment == Notified /\ cmd'.ret[1].called /\ cmd'.arg[2] # Null

\* payment p has an audit row and its mp_status is st
AuditStatus(pays, p, st) == pays[p] # NoPayment /\ pays[p].mp_status = st

\* C21 as claimed: handlePaymentWebhook for an approved payment with external
\* reference chatId:plan leaves the payment's audit row with status approved and
\* the chat's subscription on the purchased plan with usage 0, period start now and
\* period end one month after now, and returns success with the chat and the plan,
\* whether the chat had no subscription row, a free one or a paid one.
C21_ApprovedActivates ==
    [][\A c \in Chats, plan \in Offered :
          /\ NotifiedPayment
          /\ cmd'.arg[2][1].status = "approved"
          /\ cmd'.arg[2][1].external_reference = ExternalReference(c, plan)
          => /\ \A p \in PaymentIds :
                    cmd'.arg[1].body[1].id = p /\ payments[p] # NoPayment
                    => AuditStatus(payments', p, "approved")
             /\ subs'[c] = [plan |-> plan, transactions_used |-> 0,
                            period_end |-> <<AddMonth(now)>>]
             /\ activatedAt'[c] = <<now, "webhook">>
             /\ cmd'.ret[1].result = [success |-> TRUE, chatId |-> <<c>>,
                                      plan |-> <<plan>>]]_vars

\* C22: when the gateway reports a status other than approved, handlePaymentWebhook
\* writes that status to the audit row of that payment and nothing else: no other
\* audit row, no subscription row and no ledger row is created or changed, and the
\* result is success = false, returned and not thrown (the endpoint answers 200).
C22_NotApprovedOnlyAudit ==
    [][NotifiedPayment /\ cmd'.arg[2][1].status # "approved"
       => /\ \A p \in PaymentIds :
                 payments'[p] =
                     IF cmd'.arg[1].body[1].id = p /\ payments[p] # NoPayment
                     THEN [payments[p] EXCEPT !.mp_status = cmd'.arg[2][1].status]
                     ELSE payments[p]
          /\ subs' = subs
          /\ ledger' = ledger
          /\ cmd'.ret[1].result = NoActivation
          /\ ~cmd'.ret[1].sent
          /\ cmd'.ret[1].status = 200]_vars

\* C22 witness: a notification about a rejected payment has been handled and the
\* audit row of the payment reads rejected, the buyer still without a subscription
C22_Witness ==
    /\ cmd.op = "webhook" /\ cmd.ret[1].called /\ cmd.arg[2] # Null
    /\ cmd.arg[2][1].status = "rejected"
    /\ cmd.arg[1].body[1].id = 1
    /\ AuditStatus(payments, 1, "rejected")
    /\ subs[Buyer] = NoSub

\* the external reference is missing, has no colon, has a chat id that is not a
\* number, or has an empty plan
Malformed(ref) ==
    LET parts == split(ref, ":")
    IN  \/ ref = << >>
        \/ Len(parts) < 2
        \/ parts[1] = << >> \/ \E i \in 1..Len(parts[1]) : ~IsDigit(parts[1][i])
        \/ parts[2] = << >>

\* C23 as claimed: for an approved payment whose external reference is malformed
\* handlePaymentWebhook returns success = false as a handled result: it does not
\* throw, it activates or changes no subscription, and it does not mark the audit
\* row approved.
C23_MalformedReferenceRejected ==
    [][/\ NotifiedPayment
       /\ cmd'.arg[2][1].status = "approved"
       /\ Malformed(cmd'.arg[2][1].external_reference)
       => /\ cmd'.ret[1].result = NoActivation
          /\ cmd'.ret[1].status = 200
          /\ subs' = subs
          /\ payments' = payments]_vars

\* the signature of the request validates: both headers are there, x-signature has
\* a ts and a v1, and v1 is the HMAC of id:<dataId>;request-id:<requestId>;ts:<ts>;
SignatureValidates(req) ==
    /\ req.xSignature # Null /\ req.xRequestId # Null
    /\ signaturePart(req.xSignature, "ts") # Null
    /\ signaturePart(req.xSignature, "v1") =
           hmac(MP_WEBHOOK_SECRET,
                Manifest(<<ToDigit(req.body[1].id)>>, req.xRequestId,
                         signaturePart(req.xSignature, "ts")))

\* C24 as claimed: with a webhook secret configured, a request to
\* /webhook/mercadopago whose signature does not validate, whatever the length of
\* v1, is answered with 401 and nothing is processed: handlePaymentWebhook is not
\* called, no payment status and no subscription changes, no message is sent.
C24_BadSignatureRejected ==
    [][/\ Notified
       /\ MP_WEBHOOK_SECRET # Null
       /\ cmd'.arg[1].body # Null
       /\ ~SignatureValidates(cmd'.arg[1])
       => /\ cmd'.ret[1].status = 401
          /\ ~cmd'.ret[1].called
          /\ ~cmd'.ret[1].sent
          /\ payments' = payments
          /\ subs' = subs]_vars

\* a createPixPayment call returns in this step
Charged == cmd'.op = "createPix" /\ (cmd' # cmd \/ payments' # payments)

\* C28: createPixPayment for a plan of price 0 returns success = false without
\* calling the gateway and without inserting an audit row; an audit row is
\* inserted only by a call the gateway accepted, and it is the row of that charge.
C28_FreeTierNotCharged ==
    [][Charged
       => /\ PLANS_price(cmd'.arg[1]) = 0
             => /\ ~cmd'.ret[1].success
                /\ ~cmd'.ret[1].called
                /\ payments' = payments
          /\ payments' # payments
             => /\ cmd'.arg[2] = "ok" /\ cmd'.ret[1].called /\ cmd'.ret[1].success
                /\ \A p \in PaymentIds :
                       payments'[p] =
                           IF p = cmd'.arg[3] /\ payments[p] = NoPayment
                           THEN [chat_id |-> cmd'.chat, plan |-> cmd'.arg[1],
                                 mp_status |-> "pending"]
                           ELSE payments[p]]_vars

\* C28 witness: a charge of the free plan has been refused while the gateway would
\* have accepted it, and the second payment id is still without an audit row
C28_Witness ==
    /\ cmd.op = "createPix" /\ cmd.arg[1] = "free" /\ cmd.arg[2] = "ok"
    /\ ~cmd.ret[1].success /\ ~cmd.ret[1].called
    /\ payments[2] = NoPayment

\* a store operation fails inside the canProcess call of run r in this step
StoreFails(r) ==
    /\ pc[r] \in {"canProcess", "decide"} /\ StepOf(r)
    /\ cmd'.op = "storeFailure" /\ cmd.op # "storeFailure"

\* C25 as claimed: a store read or write that fails inside canProcess (loading or
\* creating the subscription, the downgrade write, the read of today's count)
\* reaches the caller as an error: the call returns no decision, in particular not
\* allowed = true, and reports no downgrade.
C25_StoreFailurePropagates ==
    [][\A r \in Runs :
          StoreFails(r) => /\ pc'[r] = "done" /\ reply'[r] = "error"
                           /\ check'[r] = NoDecision]_vars

\* C26 as claimed: every ledger row has an amount above 0: neither the pipeline,
\* whatever amount the vision model returns, nor /editar, whatever the user types,
\* stores an amount that is zero, negative or not a number.
C26_AmountsPositive == \A i \in 1..Len(ledger) : ledger[i].amount > 0

\* the getOrCreateSubscription call of canProcess in run r ends in this step
Loaded(r) ==
    /\ pc[r] \in {"canProcess", "insertSubscription"}
    /\ pc'[r] \notin {"canProcess", "insertSubscription"}

\* C27 as claimed: getOrCreateSubscription always returns a usable record: the
\* first access of a chat creates the row with the free defaults and returns it,
\* a later access returns the stored row unchanged; a row once created is never
\* deleted. This holds as well when two first accesses of a chat overlap.
C27_GetOrCreateReturnsRow ==
    [][/\ \A c \in Chats : subs[c] # NoSub => subs'[c] # NoSub
       /\ \A r \in Runs :
              Loaded(r) => /\ pc'[r] = "decide"
                           /\ sub'[r] # NoSub
                           /\ sub'[r] = subs'[chat[r]]
                           /\ subs[chat[r]] = NoSub => sub'[r] = DefaultSub
                           /\ subs[chat[r]] # NoSub => subs' = subs]_vars

\* run r calls the vision API in this step
Called(r) == vision'[r].calls = vision[r].calls + 1

\* what the retry loop does in a step of run r: no model call is in its fourth
\* attempt; a further attempt of the same model call follows a throw only; an
\* answer ends the model call; the third throw ends the extraction with amount
\* null and the no-amount reply, not with the error reply of a caught exception
RetryDiscipline(r) ==
    /\ vision'[r].attempt <= MAX_RETRIES
    /\ Called(r) /\ vision'[r].model = vision[r].model
       => /\ vision'[r].last = "throws"
          /\ vision'[r].attempt = vision[r].attempt + 1
          /\ vision'[r].attempt < MAX_RETRIES
    /\ Called(r) /\ vision'[r].last = "answer" => vision'[r].model # vision[r].model
    /\ Called(r) /\ vision'[r].last = "throws" /\ vision[r].attempt + 1 = MAX_RETRIES
       => /\ vision'[r].model = "done"
          /\ result'[r] = AmountNull
          /\ pc'[r] = "done" /\ reply'[r] = "no_amount"

\* C29 as claimed: the vision API is attempted at most 3 times per receipt: a retry
\* follows a thrown failure only, the loop stops at the first success and gives up
\* after the third failure; after giving up the extraction result has amount null
\* and no exception reaches the pipeline.
C29_ThreeAttemptsPerReceipt ==
    [][\A r \in Runs : RetryDiscipline(r) /\ vision'[r].calls <= MAX_RETRIES]_vars

\* C29 amended: the vision API is attempted at most 3 times per model call: a retry
\* follows a thrown failure only, the loop stops at the first success and gives up
\* after the third failure; after giving up the extraction result has amount null
\* and no exception reaches the pipeline. A PDF receipt takes at most 3 attempts,
\* an image receipt at most 6, since Sonnet is called with 3 attempts of its own
\* after a Haiku answer without amount.
C29_ThreeAttemptsPerModelCall ==
    [][\A r \in Runs :
          /\ RetryDiscipline(r)
          /\ vision'[r].calls <= IF vision'[r].isPdf THEN MAX_RETRIES
                                 ELSE 2 * MAX_RETRIES]_vars

\* C29 witness: an image took 6 attempts: Haiku answered without amount at its
\* third, Sonnet threw three times, and the run ended with the no-amount reply
C29_Witness ==
    \E r \in Runs :
        /\ vision[r].model = "done" /\ ~vision[r].isPdf
        /\ vision[r].calls = 2 * MAX_RETRIES /\ vision[r].attempt = MAX_RETRIES
        /\ vision[r].last = "throws"
        /\ pc[r] = "done" /\ result[r] = AmountNull /\ reply[r] = "no_amount"

\* run r appends its row to the ledger in this step
Saves(r) == pc[r] = "save" /\ pc'[r] = "incrementUsage" /\ Len(ledger') = Len(ledger) + 1

\* the number of the chat's ledger rows since local midnight once the step is taken
RowsSinceMidnightAfter(c) ==
    Cardinality({i \in 1..Len(ledger') :
        ledger'[i].chat_id = c /\ ledger'[i].created_at >= now - (now % TicksPerDay)})

\* C30: the gate's check-then-act is not atomic. Every row is appended by a run
\* whose own canProcess answered allowed against a count below the limit, and
\* nothing more is checked at the append: two receipts of one chat handled side by
\* side both pass against the same count, so a free-tier chat comes to hold more
\* than FREE_LIMIT rows of today (C30_Witness), by at most one row for each
\* further receipt in flight; the capped paid tiers are gated the same way by
\* their stored counter.
C30_GateNotAtomic ==
    [][\A r \in Runs :
          Saves(r)
          => /\ check[r].allowed
             /\ check[r].limit # Null => check[r].used < check[r].limit[1]
             /\ check[r].plan = "free"
                => /\ check[r].used < FREE_LIMIT
                   /\ RowsSinceMidnightAfter(chat[r]) <= FREE_LIMIT - 1 + Cardinality(Runs)]_vars

\* C30 witness: both runs of a free-tier chat were allowed against the same count
\* of FREE_LIMIT - 1, both have appended their row, and the chat holds more than
\* FREE_LIMIT rows of today
C30_Witness ==
    /\ subs[Acting].plan = "free"
    /\ \A r \in Runs :
          /\ chat[r] = Acting
          /\ pc[r] \in {"incrementUsage", "increment", "done"}
          /\ check[r].allowed /\ check[r].plan = "free"
          /\ check[r].used = FREE_LIMIT - 1
          /\ reply[r] # "error"
    /\ RowsSinceMidnight(Acting, now) > FREE_LIMIT

\* the same on a capped paid tier: both runs were allowed against a stored counter
\* of one below the cap and both receipts are in the ledger
C30_PaidOvershoot ==
    /\ subs[Acting].plan = "basico"
    /\ \A r \in Runs :
          /\ chat[r] = Acting
          /\ pc[r] \in {"incrementUsage", "increment", "done"}
          /\ check[r].allowed /\ check[r].plan = "basico"
          /\ check[r].used = BASICO_LIMIT - 1
          /\ reply[r] # "error"
    /\ Len(ledger) = Len(StoredLedger) + Cardinality(Runs)

\* resetMonthlyUsage runs in this step
Resets ==
    cmd'.op = "reset" /\ (cmd' # cmd \/ subs' # subs \/ period_start' # period_start)

\* C31: resetMonthlyUsage sets the usage counter to 0 and the period start to now
\* on every subscription row whose plan is not free and leaves plan and period end
\* of those rows as they are; every free-plan row, every chat without a row and
\* every ledger row stay as they are; it returns the number of rows it reset.
C31_ResetMonthlyUsage ==
    [][Resets
       => /\ \A c \in Chats :
                 IF subs[c].plan \in PaidPlans
                 THEN /\ subs'[c] = [subs[c] EXCEPT !.transactions_used = 0]
                      /\ period_start'[c] = <<now>>
                 ELSE /\ subs'[c] = subs[c]
                      /\ period_start'[c] = period_start[c]
          /\ ledger' = ledger
          /\ cmd'.ret = <<Cardinality({c \in Chats : subs[c].plan \in PaidPlans})>>]_vars

\* C31 witness: on a later tick the reset has returned 1: the paid row of chat 1
\* starts its period now with a counter of 0, the free row of chat 2 keeps the
\* period start of its creation, and the ledger has its rows
C31_Witness ==
    /\ cmd.op = "reset" /\ cmd.ret = <<1>>
    /\ now > 0
    /\ subs[1].plan \in {"basico", "pro"}
    /\ subs[1].transactions_used = 0
    /\ period_start[1] = <<now>>
    /\ subs[2] = DefaultSub
    /\ period_start[2] # Null /\ period_start[2][1] < now
    /\ Len(ledger) >= Len(StoredLedger)

\* C33 as claimed: in every reachable state every subscription row whose plan is
\* free has a stored usage counter of 0: lazy creation and downgrade write 0 and
\* incrementUsage never changes a free-plan row.
C33_FreeCounterZero ==
    \A c \in Chats : subs[c].plan = "free" => subs[c].transactions_used = 0

\* C34 as claimed: in every reachable state the plan stored in every subscription
\* row is one of free, basico, pro, ultra: handlePaymentWebhook activates a
\* subscription only with a plan of the gateway reference that is a paid tier, so
\* canProcess never meets a plan without an entry in the PLANS table.
C34_PlanInTable ==
    \A c \in Chats : subs[c] # NoSub => subs[c].plan \in PlanType

\* the last request to /webhook/mercadopago got as far as handlePaymentWebhook and
\* the gateway reported payment p as approved
LastApproved(p) ==
    /\ cmd.op = "webhook" /\ cmd.ret[1].called /\ cmd.arg[2] # Null
    /\ cmd.arg[2][1].status = "approved"
    /\ cmd.arg[1].body[1].id = p

\* C35 as claimed: whenever handlePaymentWebhook has set a payment's audit row to
\* approved, the referenced chat's subscription has been activated with the
\* purchased plan and the call reported success: no state is reachable, a failing
\* activation write included, in which the audit row says approved while the
\* subscription was left unactivated and the webhook reported failure.
C35_ApprovedMeansActivated ==
    \A p \in PaymentIds :
        LastApproved(p) /\ AuditStatus(payments, p, "approved")
        => /\ cmd.ret[1].result.success
           /\ \A c \in Chats :
                  cmd.ret[1].result.chatId = <<c>>
                  => /\ subs[c].plan = cmd.ret[1].result.plan[1]
                     /\ activatedAt[c] # Null /\ activatedAt[c][2] = "webhook"

\* C36: an approved payment activates the subscription at most once. Handling an
\* approved notification never changes a subscription row that is already there:
\* a second handling of the same payment id (payment.created followed by
\* payment.updated, or a replay) finds the row the first one wrote, or the row
\* that made the first one fail, and leaves its plan, usage counter, period start
\* and period end as they were; the receipts counted since are not reset and the
\* period is not extended.
C36_ActivatedAtMostOnce ==
    [][NotifiedPayment /\ cmd'.arg[2][1].status = "approved"
       => \A c \in Chats :
              subs[c] # NoSub
              => /\ subs'[c] = subs[c]
                 /\ period_start'[c] = period_start[c]
                 /\ activatedAt'[c] = activatedAt[c]]_vars

\* C36 witness: the approved payment of the buyer has been handled again on a
\* later tick, after a receipt had been counted: the call reported no activation,
\* the counter is not back at 0 and the period is the one of the first handling
C36_Witness ==
    /\ cmd.op = "webhook" /\ cmd.ret[1].called /\ cmd.arg[2] # Null
    /\ cmd.arg[2][1].status = "approved"
    /\ cmd.arg[2][1].external_reference = ExternalReference(Buyer, subs[Buyer].plan)
    /\ cmd.ret[1].result = NoActivation
    /\ subs[Buyer].plan \in {"basico", "pro"}
    /\ subs[Buyer].transactions_used > 0
    /\ activatedAt[Buyer] # Null /\ activatedAt[Buyer][2] = "webhook"
    /\ activatedAt[Buyer][1] < now
    /\ period_start[Buyer] = <<activatedAt[Buyer][1]>>
    /\ subs[Buyer].period_end = <<AddMonth(activatedAt[Buyer][1])>>

\* C37: in every reachable state every subscription on a capped paid tier has a
\* stored usage counter between 0 and the tier's cap (BASICO_LIMIT, PRO_LIMIT),
\* after any sequence of receipts handled one at a time, activations, grants,
\* downgrades and monthly resets.
C37_CounterWithinCap ==
    \A c \in Chats :
        subs[c].plan \in {"basico", "pro"}
        => /\ subs[c].transactions_used >= 0
           /\ subs[c].transactions_used <= CapOf(subs[c].plan)

\* C37 witness: a receipt of a basico chat that stood one below the cap has been
\* counted, and the counter stands at the cap
C37_Witness ==
    \E r \in Runs :
        /\ pc[r] = "done" /\ reply[r] = "total"
        /\ subs[chat[r]].plan = "basico"
        /\ before[r].used = BASICO_LIMIT - 1
        /\ subs[chat[r]].transactions_used = BASICO_LIMIT
        /\ Len(ledger) = Len(before[r].ledger) + 1

\* C38 as claimed: on a paid tier the usage counter counts every accepted receipt:
\* once the pipeline runs have returned, the stored counter of a chat whose rows
\* were all appended since its activation equals the number of those rows, also
\* when two pipeline runs of the chat overlapped (incrementUsage's read-then-write
\* loses no increment).
C38_CounterCountsReceipts ==
    \A c \in Chats :
        /\ subs[c].plan = "basico"
        /\ \A r \in Runs : pc[r] = "idle"
        => subs[c].transactions_used = RowsOf(c)

\* C40 as claimed: /grant changes a subscription only when it is issued from the
\* admin chat: in every configuration, the one without an admin chat id included,
\* a /grant sent from a chat that is not the admin chat leaves every subscription
\* row unchanged.
C40_GrantOnlyFromAdmin ==
    [][/\ Handles("grant")
       /\ (ADMIN_CHAT_ID = Null \/ cmd'.arg[1] # ADMIN_CHAT_ID[1])
       => subs' = subs /\ period_start' = period_start]_vars

\* the entry of the chat tracks prompt m
Tracked(c, m) == pendingMessages[c] # Null /\ pendingMessages[c][1].messageId = m

\* handler h takes up an update in this step
Receives(h) == handlers[h].pc = "idle" /\ handlers'[h].pc # "idle"

\* every entry is removed in the end
C32_EventuallyRemoved ==
    \A m \in MessageIds : Tracked(Acting, m) ~> ~Tracked(Acting, m)

\* an entry older than the time-to-live is being removed by the timer's callback,
\* which removes it whether or not the prompt could be deleted
C32_ExpiredByCleanup ==
    /\ [](cleanupExpires(pendingMessages, Acting) => handlers[Timer].pc = "deleting")
    /\ [][\A t \in Tasks : handlers[t].pc = "deleting" /\ handlers'[t].pc # "deleting"
              => pendingMessages'[Acting] = Null]_vars

\* an answer to the prompt removes the entry, and so does the handling of any
\* message that is not the /apagar command
C32_RemovedOnUpdate ==
    [][\A h \in Handlers :
          Receives(h) /\ pendingMessages[Acting] # Null
          => IF handlers'[h].kind = "callback"
             THEN pendingMessages'[Acting] = Null
             ELSE ~isCommand(handlers'[h].arg, "/apagar")
                  => /\ handlers'[h].pc = "deleting"
                     /\ Tracked(Acting, handlers'[h].target)]_vars

\* C32 as claimed: every entry of the pending-interactive-message map is removed
\* in the end: an entry older than the 2-minute time-to-live is removed by the next
\* cleanup tick, from the map even when deleting the chat message fails; an entry
\* is also removed when the user answers the prompt or sends any message other
\* than /apagar.
C32_PendingEntriesRemoved ==
    /\ C32_EventuallyRemoved
    /\ C32_ExpiredByCleanup
    /\ C32_RemovedOnUpdate

\* no handler and no callback of the timer is running
Quiescent == \A t \in Tasks : handlers[t].pc = "idle"

\* no prompt is left on display without being the tracked entry of the chat
C39_NoPromptLeftUntracked ==
    [](Quiescent => \A m \in displayed : Tracked(Acting, m))

\* clearPendingMessage removes the entry whose message it was deleting, never one
\* that was set for a newer prompt in the meantime
C39_ClearRemovesOwnEntry ==
    [][\A t \in Tasks :
          /\ handlers[t].pc = "deleting" /\ handlers'[t].pc # "deleting"
          /\ pendingMessages[Acting] # Null
          => Tracked(Acting, handlers[t].target)]_vars

\* C39 as claimed: under any interleaving of /apagar handlers, incoming messages
\* and the cleanup timer for one chat, every delete-selection prompt that has been
\* sent and not yet deleted is the entry tracked in pendingMessages for that chat:
\* clearPendingMessage never removes an entry that was set for a newer prompt while
\* it was awaiting the deletion of the older one, and no prompt is left displayed
\* but untracked.
C39_PromptsTracked ==
    /\ C39_ClearRemovesOwnEntry
    /\ C39_NoPromptLeftUntracked

====
